---- MODULE Spec2Model ----
(***************************************************************************)
(* A model of the rex record codec: the byte codec (varints, fixed-width   *)
(* integers), the schema-driven Encoder and the schema-driven Decoder.     *)
(*                                                                         *)
(* Machine integers are modelled exactly.  A w-bit unsigned integer is the *)
(* set of the positions of its 1 bits (a subset of 0..w-1), so that shifts,*)
(* masks, complements and two's complement negation keep the width of the  *)
(* Rust type they are applied to.  A byte on the wire is a number 0..255.  *)
(***************************************************************************)
EXTENDS Integers, Sequences, FiniteSets, TLC

VARIABLES
    pc,      \* "start", then "written" once the bytes exist, then "read"
    op,      \* the operation under study
    x,       \* the integer argument of a byte codec operation
    enc,     \* the CompleteEncoding of an encode or decode call
    value,   \* the application value behind the Encodable
    wire,    \* a record handed to the decoder: required payload and blocks
    trail,   \* the bytes that follow the record in the source
    data,    \* Encoder.data, the sink of the writers
    chunks,  \* Encoder.chunks
    spans,   \* the extents in data of payloads and terminators
    ret,     \* what the writer returned: err ("" for Ok) and the usize n
    elog,    \* the calls the Encoder made on the Encodable, in order
    src,     \* the bytes of the reader
    pos,     \* the number of bytes of src the reader has consumed
    res,     \* what the reader returned: err ("" for Ok) and the value v
    dlog,    \* the calls the Decoder made on the Decodable, in order
    dable,   \* the application object behind the Decodable
    fault,   \* where the error returned arose: bytes and calls made until then
    next_field, \* decode's next_field: the index in opt_rep_fields of the entry
                \* opt_rep_itr returned last, past the end for None
    next_id  \* decode's next_id, the id read last from the source

vars == <<pc, op, x, enc, value, wire, trail, data, chunks, spans, ret, elog, src, pos, res, dlog,
          dable, fault, next_field, next_id>>

----------------------------------------------------------------------------
(* Fixed-width machine integers as sets of bit positions.                   *)

Pow2(n) == 2 ^ n

Bits(w) == 0 .. (w - 1)

\* the bit set of a small natural number (below 2^31)
FromNat(n) == {i \in 0 .. 30 : (n \div Pow2(i)) % 2 = 1}

RECURSIVE ToNat(_)
\* the number a bit set below 2^31 stands for
ToNat(b) == IF b = {} THEN 0
            ELSE LET i == CHOOSE j \in b : TRUE IN Pow2(i) + ToNat(b \ {i})

\* b >> k
Shr(b, k) == {i - k : i \in {j \in b : j >= k}}

\* b << k on a w-bit integer: the bits shifted out are lost
Shl(b, k, w) == {i + k : i \in {j \in b : j + k < w}}

\* !b on a w-bit integer
Not(b, w) == Bits(w) \ b

\* b as u8, as a wire byte
AsU8(b) == ToNat(b \cap Bits(8))

\* two's complement negation of a w-bit integer: !b + 1
Neg(b, w) ==
    LET n == Not(b, w)
        z == Bits(w) \ n
    IN  IF z = {} THEN {}
        ELSE LET k == CHOOSE j \in z : \A l \in z : j <= l
             IN  {i \in n : i > k} \cup {k}

\* the w-bit integer whose little-endian bytes are bs
FromBytes(bs) == UNION {{8 * (k - 1) + i : i \in FromNat(bs[k])} : k \in 1 .. Len(bs)}

----------------------------------------------------------------------------
(* Writers of the encoder (src/src/encoder.rs).  A writer takes the sink w  *)
(* (a Vec<u8>, which never fails) and returns the sink and the usize n.     *)

BufLen == 10

RECURSIVE uvarint_loop(_, _, _)
uvarint_loop(v, buf, idx) ==
    IF \E i \in v : i >= 7
    THEN uvarint_loop(Shr(v, 7), [buf EXCEPT ![idx + 1] = 128 + ToNat(v \cap Bits(7))], idx + 1)
    ELSE [buf |-> [buf EXCEPT ![idx + 1] = AsU8(v)], idx |-> idx]

\* the slice of buf handed to write_all: &buf[idx..]
uvarint_slice(buf, idx) == SubSeq(buf, idx + 1, BufLen)

write_uvarint(w, v) ==
    LET r == uvarint_loop(v, [i \in 1 .. BufLen |-> 0], 0)
    IN  [w |-> w \o uvarint_slice(r.buf, r.idx), n |-> r.idx + 1]

write_varint(w, v) ==
    LET ux == Shl(v, 1, 64)
    IN  write_uvarint(w, IF 63 \in v THEN Not(ux, 64) ELSE ux)

write_u8(w, b) == [w |-> w \o <<b>>, n |-> 1]

\* the byte ((v >> 8k) & 0xFF) as u8
le_byte(v, k) == AsU8(Shr(v, 8 * k))

write_le_u16(w, v) == [w |-> w \o <<le_byte(v, 0), le_byte(v, 1)>>, n |-> 2]

write_le_u32(w, v) ==
    [w |-> w \o <<le_byte(v, 0), le_byte(v, 1), le_byte(v, 2), le_byte(v, 3)>>, n |-> 4]

write_le_u64(w, v) ==
    [w |-> w \o <<le_byte(v, 0), le_byte(v, 1), le_byte(v, 2), le_byte(v, 3),
                  le_byte(v, 4), le_byte(v, 5), le_byte(v, 6), le_byte(v, 7)>>,
     n |-> 8]

----------------------------------------------------------------------------
(* uvarint_size (src/src/primitive.rs).                                     *)

\* v < 0x80 << k on u64
Below(v, k) == \A i \in v : i < 7 + k

uvarint_size(v) ==
    IF Below(v, 0) THEN 1
    ELSE IF Below(v, 7) THEN 2
    ELSE IF Below(v, 14) THEN 3
    ELSE IF Below(v, 21) THEN 4
    ELSE IF Below(v, 28) THEN 5
    ELSE IF Below(v, 35) THEN 6
    ELSE IF Below(v, 42) THEN 7
    ELSE IF Below(v, 49) THEN 8
    ELSE IF Below(v, 56) THEN 9
    ELSE 10

----------------------------------------------------------------------------
(* Readers of the decoder (src/src/decoder.rs) and the iterator adaptors    *)
(* they are built on (src/src/iter.rs).  A reader takes the source s and    *)
(* the number p of bytes already consumed, and returns err ("" for Ok), the *)
(* value v and the new number of bytes consumed.                            *)

\* result::fold over bytes().take_while_incl(|b| b >= 0x80): the end of the
\* source ends the iterator, and the fold returns what it has accumulated
RECURSIVE uvarint_fold(_, _, _)
uvarint_fold(s, p, sum) ==
    IF p >= Len(s) THEN [err |-> "", v |-> sum, pos |-> p]
    ELSE LET b   == s[p + 1]
             acc == Shl(sum, 7, 64) \cup FromNat(b % 128)
         IN  IF b >= 128 THEN uvarint_fold(s, p + 1, acc)
             ELSE [err |-> "", v |-> acc, pos |-> p + 1]

read_uvarint(s, p) == uvarint_fold(s, p, {})

read_varint(s, p) ==
    LET r  == read_uvarint(s, p)
        ux == r.v
    IN  IF 0 \in ux
        THEN [r EXCEPT !.v = Neg(Shr(Not(ux, 64), 1), 64)]
        ELSE [r EXCEPT !.v = Shr(ux, 1)]

\* result::fold over bytes().take_or_err(n, EOF) with (so_far << 8) + next
\* on a w-bit accumulator
RECURSIVE le_fold(_, _, _, _, _)
le_fold(s, p, n, w, acc) ==
    IF n = 0 THEN [err |-> "", v |-> acc, pos |-> p]
    ELSE IF p >= Len(s) THEN [err |-> "EOF", v |-> {}, pos |-> p]
    ELSE le_fold(s, p + 1, n - 1, w, Shl(acc, 8, w) \cup FromNat(s[p + 1]))

read_le_u16(s, p) == le_fold(s, p, 2, 16, {})
read_le_u32(s, p) == le_fold(s, p, 4, 32, {})
read_le_u64(s, p) == le_fold(s, p, 8, 64, {})

read_u8(s, p) ==
    IF p >= Len(s) THEN [err |-> "EOF", v |-> 0, pos |-> p]
    ELSE [err |-> "", v |-> s[p + 1], pos |-> p + 1]

----------------------------------------------------------------------------
(* The schema model (src/src/encoding.rs).  A Type is its name, with the    *)
(* dependency index of a Record in `index`; Option<usize> is the empty       *)
(* sequence for None and <<m>> for Some(m).                                 *)

PrimitiveTypes ==
    {"Int8", "Int16", "Int32", "Int64", "UInt8", "UInt16", "UInt32", "UInt64",
     "Fixed32", "Fixed64", "Float32", "Float64", "Bytes", "String", "Bool", "Enum"}

FieldEncoding(id, quant, typ, index, bounds) ==
    [id |-> id, quant |-> quant, typ |-> typ, index |-> index, bounds |-> bounds]

RecordEncoding(req_fields, opt_rep_fields) ==
    [req_fields |-> req_fields, opt_rep_fields |-> opt_rep_fields]

CompleteEncoding(target, depends) == [target |-> target, depends |-> depends]

\* FieldID(a) < FieldID(b) on u64
LtU(a, b) == \E i \in b \ a : \A j \in a \ b : j < i

\* the name of a field or of a record type, not used in the encoding
Named(name, r) == ("name" :> name) @@ r

\* indices into COMPLETE_ENC.depends
FIELD_ENCODING_TYP == 0
RECORD_ENCODING_TYP == 1

\* the pre-decoded encoding for encodings
COMPLETE_ENC ==
    CompleteEncoding(
        Named("CompleteEncoding", RecordEncoding(
            <<Named("target",
                    FieldEncoding(1, "Required", "Record", RECORD_ENCODING_TYP, <<>>))>>,
            <<Named("depends",
                    FieldEncoding(2, "Repeated", "Record", RECORD_ENCODING_TYP, <<>>))>>)),
        <<Named("FieldEncoding", RecordEncoding(
              <<Named("id", FieldEncoding(1, "Required", "UInt64", 0, <<>>)),
                Named("name", FieldEncoding(2, "Required", "String", 0, <<>>)),
                Named("quant", FieldEncoding(3, "Required", "Enum", 0, <<>>)),
                Named("typ", FieldEncoding(4, "Required", "Enum", 0, <<>>)),
                Named("bounds", FieldEncoding(5, "Required", "UInt64", 0, <<>>))>>,
              <<>>)),
          Named("RecordEncoding", RecordEncoding(
              <<Named("name", FieldEncoding(1, "Required", "String", 0, <<>>))>>,
              <<Named("req_fields",
                      FieldEncoding(2, "Repeated", "Record", FIELD_ENCODING_TYP, <<>>)),
                Named("opt_rep_fields",
                      FieldEncoding(3, "Repeated", "Record", FIELD_ENCODING_TYP, <<>>))>>))>>)

----------------------------------------------------------------------------
(* Primitive (src/src/primitive.rs).  tag is the variant; the value is in v *)
(* (the bits of an integer or of a float), in b (the bytes of Bytes, the    *)
(* UTF-8 bytes of String) or in t (Bool).                                   *)

Primitive(tag, v, b, t) == [tag |-> tag, v |-> v, b |-> b, t |-> t]

NoPrimitive == Primitive("", {}, <<>>, FALSE)

has_type(prim, t) ==
    \/ prim.tag = "UInt8"   /\ t = "UInt8"
    \/ prim.tag = "UInt16"  /\ t = "UInt8"
    \/ prim.tag = "UInt32"  /\ t = "UInt32"
    \/ prim.tag = "UInt64"  /\ t = "UInt64"
    \/ prim.tag = "Int8"    /\ t = "Int8"
    \/ prim.tag = "Int16"   /\ t = "Int8"
    \/ prim.tag = "Int32"   /\ t = "Int32"
    \/ prim.tag = "Int64"   /\ t = "Int64"
    \/ prim.tag = "Fixed32" /\ t = "Fixed32"
    \/ prim.tag = "Fixed64" /\ t = "Fixed64"
    \/ prim.tag = "Float32" /\ t = "Float32"
    \/ prim.tag = "Float64" /\ t = "Float64"
    \/ prim.tag = "Bool"    /\ t = "Bool"
    \/ prim.tag = "Bytes"   /\ t = "Bytes"
    \/ prim.tag = "String"  /\ t = "String"
    \/ prim.tag = "Enum"    /\ t = "Enum"

\* x as i64 for a w-bit signed x (sign extension)
SignExtend(b, w) == IF (w - 1) \in b THEN b \cup (w .. 63) ELSE b

----------------------------------------------------------------------------
(* The Encodable trait (src/src/encoder.rs) as implemented by an            *)
(* application value e: e.prims maps <<id, idx>> to the Primitive of that   *)
(* element, e.counts maps an id to the number of members of the field,      *)
(* e.recs maps <<id, idx>> to the nested value, e.nocount is the set of ids *)
(* whose count the value cannot tell.  Each call is recorded in the log,    *)
(* with the path of <<id, idx>> pairs from the top-level record.            *)

Event(call, path, id, idx, prim, n) ==
    [call |-> call, path |-> path, id |-> id, idx |-> idx, prim |-> prim, n |-> n]

Ok(n, st) == [err |-> "", n |-> n, st |-> st]

\* Err(e) arising with st: at and seen observe the bytes written and the calls
\* made when it arose
Err(e, st) == [err |-> e, n |-> 0, st |-> st, at |-> Len(st.data), seen |-> Len(st.log)]

Logged(st, ev) == [st EXCEPT !.log = Append(@, ev)]

\* Observation only: the extent data[from+1 .. to] of what a step appended to
\* data.  kind is "Optional" or "Repeated" for the payload of a field (count
\* is its count_field result) and "Terminator" for the final 0-id of a record.
Span(kind, path, id, count, from, to) ==
    [kind |-> kind, path |-> path, id |-> id, count |-> count, from |-> from, to |-> to]

Observed(st, sp) == [st EXCEPT !.spans = Append(@, sp)]

get_primitive(e, id, idx) ==
    IF <<id, idx>> \in DOMAIN e.prims
    THEN [err |-> "", prim |-> e.prims[<<id, idx>>]]
    ELSE [err |-> "FieldTypeMismatch", prim |-> NoPrimitive]

count_field(e, id) ==
    IF id \in e.nocount THEN [err |-> "FieldTypeMismatch", n |-> 0]
    ELSE [err |-> "", n |-> IF id \in DOMAIN e.counts THEN e.counts[id] ELSE 0]

----------------------------------------------------------------------------
(* The Encoder (src/src/encoder.rs).  A frame self is [rec, deps]; the      *)
(* buffers data and chunks that all frames share are in st, with the log.   *)

Encoder(rec, deps) == [rec |-> rec, deps |-> deps]

child(self, index) ==
    IF index < Len(self.deps)
    THEN [err |-> "", frame |-> Encoder(self.deps[index + 1], self.deps)]
    ELSE [err |-> "EncodingInvalid", frame |-> self]

\* Bytes and String: the length prefix, then the bytes; the value is x.len()
encode_bytes(b, st) ==
    LET wr == write_uvarint(st.data, FromNat(Len(b)))
    IN  Ok(Len(b), [st EXCEPT !.data = wr.w \o b])

Wrote(wr, st) == Ok(wr.n, [st EXCEPT !.data = wr.w])

encode_primitive(prim, st) ==
    CASE prim.tag = "UInt8"   -> Wrote(write_u8(st.data, AsU8(prim.v)), st)
      [] prim.tag = "UInt16"  -> Wrote(write_le_u16(st.data, prim.v), st)
      [] prim.tag = "UInt32"  -> Wrote(write_uvarint(st.data, prim.v), st)
      [] prim.tag = "UInt64"  -> Wrote(write_uvarint(st.data, prim.v), st)
      [] prim.tag = "Int8"    -> Wrote(write_u8(st.data, AsU8(prim.v)), st)
      [] prim.tag = "Int16"   -> Wrote(write_le_u16(st.data, prim.v), st)
      [] prim.tag = "Int32"   -> Wrote(write_varint(st.data, SignExtend(prim.v, 32)), st)
      [] prim.tag = "Int64"   -> Wrote(write_varint(st.data, prim.v), st)
      [] prim.tag = "Fixed32" -> Wrote(write_le_u32(st.data, prim.v), st)
      [] prim.tag = "Fixed64" -> Wrote(write_le_u64(st.data, prim.v), st)
      [] prim.tag = "Float32" -> Wrote(write_le_u32(st.data, prim.v), st)
      [] prim.tag = "Float64" -> Wrote(write_le_u64(st.data, prim.v), st)
      [] prim.tag = "Bool"    -> Wrote(write_u8(st.data, IF prim.t THEN 255 ELSE 0), st)
      [] prim.tag = "Bytes"   -> encode_bytes(prim.b, st)
      [] prim.tag = "String"  -> encode_bytes(prim.b, st)
      [] prim.tag = "Enum"    -> Wrote(write_varint(st.data, prim.v), st)

\* try!(r) in a function that goes on with K: the first error is returned
\* (r is evaluated once, as the call it stands for is made once)
Try(r, K(_)) == CHOOSE out \in {IF v.err # "" THEN v ELSE K(v) : v \in {r}} : TRUE

RECURSIVE encode(_, _, _, _)
RECURSIVE encode_array_loop(_, _, _, _, _, _, _, _)
RECURSIVE encode_repeated_loop(_, _, _, _, _, _, _, _)
RECURSIVE encode_req_loop(_, _, _, _, _, _)
RECURSIVE encode_opt_rep_loop(_, _, _, _, _, _)

\* Encodable::encode_record of a value that does what the trait asks: it
\* calls e.encode on the nested value and passes the result through
encode_record(e, frame, path, id, idx, st) ==
    IF <<id, idx>> \in DOMAIN e.recs
    THEN encode(frame, e.recs[<<id, idx>>], Append(path, <<id, idx>>),
                Logged(st, Event("encode_record", path, id, idx, NoPrimitive, 0)))
    ELSE Err("FieldTypeMismatch",
             Logged(st, Event("encode_record", path, id, idx, NoPrimitive, 0)))

\* the rest of encode_field once get_primitive has returned g
encode_got(g, t, st) ==
    IF g.err # "" THEN Err(g.err, st)
    ELSE IF ~has_type(g.prim, t) THEN Err("FieldTypeMismatch", st)
    ELSE encode_primitive(g.prim, st)

encode_field(self, e, path, f, index, st) ==
    IF f.typ = "Record"
    THEN IF child(self, f.index).err # "" THEN Err(child(self, f.index).err, st)
         ELSE encode_record(e, child(self, f.index).frame, path, f.id, index, st)
    ELSE encode_got(get_primitive(e, f.id, index), f.typ,
                    Logged(st, Event("get_primitive", path, f.id, index,
                                     get_primitive(e, f.id, index).prim, 0)))

\* for arr_index in 0..max { total += try!(encode_field(index*max + arr_index)) }
encode_array_loop(self, e, path, f, index, arr_index, total, st) ==
    IF arr_index >= f.bounds[1] THEN Ok(total, st)
    ELSE Try(encode_field(self, e, path, f, index * f.bounds[1] + arr_index, st),
             LAMBDA r : encode_array_loop(self, e, path, f, index, arr_index + 1,
                                          total + r.n, r.st))

encode_array(self, e, path, f, index, st) ==
    IF f.bounds # <<>>
    THEN encode_array_loop(self, e, path, f, index, 0, 0, st)
    ELSE encode_field(self, e, path, f, index, st)

encode_required(self, e, path, f, st) == encode_array(self, e, path, f, 0, st)

\* encode_optional with the id prefix of an absent field counted in the total
encode_optional_absent(self, e, path, f, c, st) ==
    IF c.err # "" THEN Err(c.err, st)
    ELSE IF c.n = 0 THEN Ok(uvarint_size(FromNat(f.id)), st)
    ELSE Try(encode_array(self, e, path, f, 0, st),
             LAMBDA r : Ok(uvarint_size(FromNat(f.id)) + uvarint_size(FromNat(r.n)) + r.n,
                           Observed(r.st, Span("Optional", path, f.id, c.n,
                                               Len(st.data), Len(r.st.data)))))

\* the rest of encode_optional once count_field has returned c
encode_optional_counted(self, e, path, f, c, st) ==
    IF c.err # "" THEN Err(c.err, st)
    ELSE IF c.n = 0 THEN Ok(0, st)
    ELSE Try(encode_array(self, e, path, f, 0, st),
             LAMBDA r : Ok(uvarint_size(FromNat(f.id)) + uvarint_size(FromNat(r.n)) + r.n,
                           Observed(r.st, Span("Optional", path, f.id, c.n,
                                               Len(st.data), Len(r.st.data)))))

encode_optional(self, e, path, f, st) ==
    encode_optional_counted(self, e, path, f, count_field(e, f.id),
        Logged(st, Event("count_field", path, f.id, 0, NoPrimitive, count_field(e, f.id).n)))

\* for index in 0..max { len_data += try!(encode_array(index)) }
encode_repeated_loop(self, e, path, f, max, index, len_data, st) ==
    IF index >= max THEN Ok(len_data, st)
    ELSE Try(encode_array(self, e, path, f, index, st),
             LAMBDA r : encode_repeated_loop(self, e, path, f, max, index + 1,
                                             len_data + r.n, r.st))

\* the rest of encode_repeated once count_field has returned c
encode_repeated_counted(self, e, path, f, c, st) ==
    IF c.err # "" THEN Err(c.err, st)
    ELSE IF c.n = 0 THEN Ok(0, st)
    ELSE Try(encode_repeated_loop(self, e, path, f, c.n, 0, 0, st),
             LAMBDA r : Ok(uvarint_size(FromNat(f.id))
                             + uvarint_size(FromNat(uvarint_size(FromNat(c.n)) + r.n))
                             + uvarint_size(FromNat(c.n)) + r.n,
                           Observed(r.st, Span("Repeated", path, f.id, c.n,
                                               Len(st.data), Len(r.st.data)))))

encode_repeated(self, e, path, f, st) ==
    encode_repeated_counted(self, e, path, f, count_field(e, f.id),
        Logged(st, Event("count_field", path, f.id, 0, NoPrimitive, count_field(e, f.id).n)))

encode_req_loop(self, e, path, i, total, st) ==
    IF i > Len(self.rec.req_fields) THEN Ok(total, st)
    ELSE Try(IF self.rec.req_fields[i].quant = "Required"
             THEN encode_required(self, e, path, self.rec.req_fields[i], st)
             ELSE Err("EncodingInvalid", st),
             LAMBDA r : encode_req_loop(self, e, path, i + 1, total + r.n, r.st))

encode_opt_rep_loop(self, e, path, i, total, st) ==
    IF i > Len(self.rec.opt_rep_fields) THEN Ok(total, st)
    ELSE Try(CASE self.rec.opt_rep_fields[i].quant = "Optional" ->
                      encode_optional(self, e, path, self.rec.opt_rep_fields[i], st)
               [] self.rec.opt_rep_fields[i].quant = "Repeated" ->
                      encode_repeated(self, e, path, self.rec.opt_rep_fields[i], st)
               [] self.rec.opt_rep_fields[i].quant = "Required" ->
                      Err("EncodingInvalid", st),
             LAMBDA r : encode_opt_rep_loop(self, e, path, i + 1, total + r.n, r.st))

\* the final 0-id, marking the end of the record
encode_terminator(path, total, st) ==
    Ok(total + write_uvarint(st.data, {}).n,
       Observed([st EXCEPT !.data = write_uvarint(st.data, {}).w],
                Span("Terminator", path, 0, 0,
                     Len(st.data), Len(write_uvarint(st.data, {}).w))))

encode(self, e, path, st) ==
    Try(encode_req_loop(self, e, path, 1, 0, st),
        LAMBDA r1 : Try(encode_opt_rep_loop(self, e, path, 1, r1.n, r1.st),
                        LAMBDA r2 : encode_terminator(path, r2.n, r2.st)))

----------------------------------------------------------------------------
(* The Decodable trait (src/src/decoder.rs) as implemented by an            *)
(* application object d that records what it is given: d.fail is the set of *)
(* <<path, id, idx>> elements it expects with another type, d.decline the   *)
(* set of ids of the fields it is not interested in.                        *)

Decodable(fail, decline) == [fail |-> fail, decline |-> decline]

set_primitive(d, path, id, idx, prim) ==
    IF <<path, id, idx>> \in d.fail THEN "FieldTypeMismatch" ELSE ""

\* Ok(false) says that the receiver is uninterested in the field
alloc_field(d, id, count) == [err |-> "", interested |-> id \notin d.decline]

----------------------------------------------------------------------------
(* The Decoder (src/src/decoder.rs).  A frame self is [rec, deps]; the      *)
(* reader all frames share is the source s with st.pos bytes consumed.      *)

Decoder(rec, deps) == [rec |-> rec, deps |-> deps]

\* child with the first dependency as rec, whatever the index
decoder_child_first(self, index) ==
    IF index < Len(self.deps)
    THEN [err |-> "", frame |-> Decoder(self.deps[1], self.deps)]
    ELSE [err |-> "EncodingInvalid", frame |-> self]

decoder_child(self, index) ==
    IF index < Len(self.deps)
    THEN [err |-> "", frame |-> Decoder(self.deps[index + 1], self.deps)]
    ELSE [err |-> "EncodingInvalid", frame |-> self]

DOk(st) == [err |-> "", st |-> st]

\* Err(e) arising with st: at and seen observe the bytes consumed and the
\* calls made when it arose
DErr(e, st) == [err |-> e, st |-> st, at |-> st.pos, seen |-> Len(st.log)]

\* the number of bytes of s not yet consumed
Remaining(s, st) == Len(s) - st.pos

\* result::fold over bytes().take_or_err(len, EOF): len bytes, or EOF
take_or_err(s, st, len) ==
    IF LtU(FromNat(Remaining(s, st)), len)
    THEN [err |-> "EOF", b |-> <<>>, pos |-> Len(s)]
    ELSE [err |-> "", b |-> SubSeq(s, st.pos + 1, st.pos + ToNat(len)),
          pos |-> st.pos + ToNat(len)]

skip_field(s, st) ==
    LET len == read_uvarint(s, st.pos)
        t   == take_or_err(s, [st EXCEPT !.pos = len.pos], len.v)
    IN  IF t.err # "" THEN DErr(t.err, [st EXCEPT !.pos = t.pos])
        ELSE DOk([st EXCEPT !.pos = t.pos])

\* String::from_utf8: is b well-formed UTF-8 from byte i on
RECURSIVE Utf8From(_, _)
Utf8From(b, i) ==
    LET Cont(k, lo, hi) == k <= Len(b) /\ b[k] >= lo /\ b[k] <= hi
    IN  IF i > Len(b) THEN TRUE
        ELSE IF b[i] < 128 THEN Utf8From(b, i + 1)
        ELSE IF b[i] >= 194 /\ b[i] <= 223
             THEN Cont(i + 1, 128, 191) /\ Utf8From(b, i + 2)
        ELSE IF b[i] >= 224 /\ b[i] <= 239
             THEN /\ Cont(i + 1, IF b[i] = 224 THEN 160 ELSE 128,
                                 IF b[i] = 237 THEN 159 ELSE 191)
                  /\ Cont(i + 2, 128, 191)
                  /\ Utf8From(b, i + 3)
        ELSE IF b[i] >= 240 /\ b[i] <= 244
             THEN /\ Cont(i + 1, IF b[i] = 240 THEN 144 ELSE 128,
                                 IF b[i] = 244 THEN 143 ELSE 191)
                  /\ Cont(i + 2, 128, 191)
                  /\ Cont(i + 3, 128, 191)
                  /\ Utf8From(b, i + 4)
        ELSE FALSE

from_utf8(b) == Utf8From(b, 1)

\* the arm of Type::Bool with every byte but 0x00 read as true
read_bool_lenient(s, st) ==
    LET r == read_u8(s, st.pos)
    IN  IF r.err # "" THEN [err |-> r.err, prim |-> NoPrimitive, pos |-> r.pos]
        ELSE [err |-> "", prim |-> Primitive("Bool", {}, <<>>, r.v # 0), pos |-> r.pos]

\* the arm of Type::Bool: 0xFF is true, 0x00 is false, the rest is BadBool
read_bool(s, st) ==
    LET r == read_u8(s, st.pos)
    IN  IF r.err # "" THEN [err |-> r.err, prim |-> NoPrimitive, pos |-> r.pos]
        ELSE IF r.v = 255
             THEN [err |-> "", prim |-> Primitive("Bool", {}, <<>>, TRUE), pos |-> r.pos]
        ELSE IF r.v = 0
             THEN [err |-> "", prim |-> Primitive("Bool", {}, <<>>, FALSE), pos |-> r.pos]
        ELSE [err |-> "BadBool", prim |-> NoPrimitive, pos |-> r.pos]

\* a cast that keeps every bit
cast_wide(v, w) == v

\* v as u32, v as i32: the low w bits of v (what the readers of w bits return
\* has no other bit)
cast(v, w) == v \cap Bits(w)

\* the match of decode_field on a primitive type: the Primitive read
read_primitive(s, st, typ) ==
    LET IntOf(tag, r, w) ==
            [err |-> r.err, prim |-> Primitive(tag, cast(r.v, w), <<>>, FALSE), pos |-> r.pos]
        ByteOf(tag) ==
            LET r == read_u8(s, st.pos)
            IN  [err |-> r.err, prim |-> Primitive(tag, FromNat(r.v), <<>>, FALSE), pos |-> r.pos]
        VecOf(tag) ==
            LET len == read_uvarint(s, st.pos)
                t   == take_or_err(s, [st EXCEPT !.pos = len.pos], len.v)
            IN  IF t.err # "" THEN [err |-> t.err, prim |-> NoPrimitive, pos |-> t.pos]
                ELSE IF tag = "String" /\ ~from_utf8(t.b)
                     THEN [err |-> "Utf8Error", prim |-> NoPrimitive, pos |-> t.pos]
                ELSE [err |-> "", prim |-> Primitive(tag, {}, t.b, FALSE), pos |-> t.pos]
    IN  CASE typ = "UInt8"   -> ByteOf("UInt8")
          [] typ = "UInt16"  -> IntOf("UInt16", read_le_u16(s, st.pos), 16)
          [] typ = "UInt32"  -> IntOf("UInt32", read_uvarint(s, st.pos), 32)
          [] typ = "UInt64"  -> IntOf("UInt64", read_uvarint(s, st.pos), 64)
          [] typ = "Int8"    -> ByteOf("Int8")
          [] typ = "Int16"   -> IntOf("Int16", read_le_u16(s, st.pos), 16)
          [] typ = "Int32"   -> IntOf("Int32", read_varint(s, st.pos), 32)
          [] typ = "Int64"   -> IntOf("Int64", read_varint(s, st.pos), 64)
          [] typ = "Fixed32" -> IntOf("Fixed32", read_le_u32(s, st.pos), 32)
          [] typ = "Fixed64" -> IntOf("Fixed64", read_le_u64(s, st.pos), 64)
          [] typ = "Float32" -> IntOf("Float32", read_le_u32(s, st.pos), 32)
          [] typ = "Float64" -> IntOf("Float64", read_le_u64(s, st.pos), 64)
          [] typ = "Bool"    -> read_bool(s, st)
          [] typ = "Bytes"   -> VecOf("Bytes")
          [] typ = "String"  -> VecOf("String")
          [] typ = "Enum"    -> IntOf("Enum", read_varint(s, st.pos), 64)

RECURSIVE decode(_, _, _, _, _)
RECURSIVE decode_array_loop(_, _, _, _, _, _, _, _)
RECURSIVE decode_repeated_loop(_, _, _, _, _, _, _, _)
RECURSIVE decode_req_loop(_, _, _, _, _, _)
RECURSIVE decode_while(_, _, _, _, _, _, _)

\* Decodable::decode_record of an object that does what the trait asks: it
\* calls d.decode on the nested object
decode_record(d, s, frame, path, id, idx, st) ==
    decode(frame, s, d, Append(path, <<id, idx>>),
           Logged(st, Event("decode_record", path, id, idx, NoPrimitive, 0)))

\* the rest of decode_field with the result of set_primitive dropped
decode_got_unchecked(d, path, f, idx, r, st) ==
    IF r.err # "" THEN DErr(r.err, [st EXCEPT !.pos = r.pos])
    ELSE DOk(Logged([st EXCEPT !.pos = r.pos],
                    Event("set_primitive", path, f.id, idx, r.prim, 0)))

\* the rest of decode_field once the primitive has been read as r: an error
\* of the read is returned, else d.set_primitive(f.id, idx, prim) is called
decode_got(d, path, f, idx, r, st) ==
    IF r.err # "" THEN DErr(r.err, [st EXCEPT !.pos = r.pos])
    ELSE IF set_primitive(d, path, f.id, idx, r.prim) # ""
    THEN DErr(set_primitive(d, path, f.id, idx, r.prim),
              Logged([st EXCEPT !.pos = r.pos],
                     Event("set_primitive", path, f.id, idx, r.prim, 0)))
    ELSE DOk(Logged([st EXCEPT !.pos = r.pos],
                    Event("set_primitive", path, f.id, idx, r.prim, 0)))

decode_field(self, s, d, path, f, idx, st) ==
    IF f.typ = "Record"
    THEN IF decoder_child(self, f.index).err # ""
         THEN DErr(decoder_child(self, f.index).err, st)
         ELSE decode_record(d, s, decoder_child(self, f.index).frame, path, f.id, idx, st)
    ELSE decode_got(d, path, f, idx, read_primitive(s, st, f.typ), st)

\* decode_array's loop with the element index idx + arr_index
decode_array_unscaled(self, s, d, path, f, idx, arr_index, st) ==
    IF arr_index >= f.bounds[1] THEN DOk(st)
    ELSE Try(decode_field(self, s, d, path, f, idx + arr_index, st),
             LAMBDA r : decode_array_loop(self, s, d, path, f, idx, arr_index + 1, r.st))

\* for arr_index in 0..max { try!(decode_field(idx*max + arr_index)) }
decode_array_loop(self, s, d, path, f, idx, arr_index, st) ==
    IF arr_index >= f.bounds[1] THEN DOk(st)
    ELSE Try(decode_field(self, s, d, path, f, idx * f.bounds[1] + arr_index, st),
             LAMBDA r : decode_array_loop(self, s, d, path, f, idx, arr_index + 1, r.st))

decode_array(self, s, d, path, f, idx, st) ==
    IF f.bounds # <<>>
    THEN decode_array_loop(self, s, d, path, f, idx, 0, st)
    ELSE decode_field(self, s, d, path, f, idx, st)

decode_required(self, s, d, path, f, st) == decode_array(self, s, d, path, f, 0, st)

\* the byte-size prefix is read and discarded
decode_optional(self, s, d, path, f, st) ==
    decode_array(self, s, d, path, f, 0, [st EXCEPT !.pos = read_uvarint(s, st.pos).pos])

\* for idx in 0..len { try!(decode_array(idx)) }
decode_repeated_loop(self, s, d, path, f, len, idx, st) ==
    IF ~LtU(FromNat(idx), len) THEN DOk(st)
    ELSE Try(decode_array(self, s, d, path, f, idx, st),
             LAMBDA r : decode_repeated_loop(self, s, d, path, f, len, idx + 1, r.st))

\* the rest of decode_repeated once the byte-size prefix has been read and
\* discarded and the count has been read as len
decode_repeated_counted(self, s, d, path, f, len, st) ==
    decode_repeated_loop(self, s, d, path, f, len.v, 0, [st EXCEPT !.pos = len.pos])

decode_repeated(self, s, d, path, f, st) ==
    decode_repeated_counted(self, s, d, path, f,
                            read_uvarint(s, read_uvarint(s, st.pos).pos), st)

decode_req_loop(self, s, d, path, i, st) ==
    IF i > Len(self.rec.req_fields) THEN DOk(st)
    ELSE Try(decode_required(self, s, d, path, self.rec.req_fields[i], st),
             LAMBDA r : decode_req_loop(self, s, d, path, i + 1, r.st))

\* next_id = FieldID(try!(read_uvarint(self.r))), then the loop again
read_next_id(self, s, d, path, k, st) ==
    decode_while(self, s, d, path, k, read_uvarint(s, st.pos).v,
                 [st EXCEPT !.pos = read_uvarint(s, st.pos).pos])

\* the arm for a matching entry with a Required entry decoded as an optional
decode_matched_any(self, s, d, path, field, st) ==
    CASE field.quant = "Required" -> decode_optional(self, s, d, path, field, st)
      [] field.quant = "Optional" -> decode_optional(self, s, d, path, field, st)
      [] field.quant = "Repeated" -> decode_repeated(self, s, d, path, field, st)

\* the arm of the match for a schema entry whose id is next_id
decode_matched(self, s, d, path, field, st) ==
    CASE field.quant = "Required" -> DErr("EncodingInvalid", st)
      [] field.quant = "Optional" -> decode_optional(self, s, d, path, field, st)
      [] field.quant = "Repeated" -> decode_repeated(self, s, d, path, field, st)

\* the while loop of decode: next_field is entry k of opt_rep_fields, the
\* last one opt_rep_itr returned, or None when k is past the end, and id is
\* the id read last
decode_while(self, s, d, path, k, id, st) ==
    IF id = {} THEN DOk(st)
    ELSE IF k > Len(self.rec.opt_rep_fields)
    THEN read_next_id(self, s, d, path, k, st)
    ELSE IF LtU(FromNat(self.rec.opt_rep_fields[k].id), id)
    THEN decode_while(self, s, d, path, k + 1, id, st)
    ELSE IF LtU(id, FromNat(self.rec.opt_rep_fields[k].id))
    THEN Try(skip_field(s, st), LAMBDA r : read_next_id(self, s, d, path, k, r.st))
    ELSE Try(decode_matched(self, s, d, path, self.rec.opt_rep_fields[k], st),
             LAMBDA r : read_next_id(self, s, d, path, k + 1, r.st))

decode(self, s, d, path, st) ==
    Try(decode_req_loop(self, s, d, path, 1, st),
        LAMBDA r : read_next_id(self, s, d, path, 1, r.st))

decode_from(c, s, d) ==
    decode(Decoder(c.target, c.depends), s, d, <<>>, [pos |-> 0, log |-> <<>>])

----------------------------------------------------------------------------
(* Inputs.                                                                  *)

\* 64-bit arguments: every power of two, every 2^k - 1 (2^64 - 1 is also -1
\* as i64), 300 and 0xDEADBEEF
U64Inputs ==
    {{k} : k \in Bits(64)} \cup {Bits(k) : k \in 0 .. 64}
        \cup {FromNat(300), FromBytes(<<239, 190, 173, 222>>)}

EdgeBytes == {0, 1, 127, 128, 255}

U16Inputs == {FromBytes(<<a, b>>) : a, b \in EdgeBytes}

U32Inputs ==
    {FromBytes(<<a, 0, b, c>>) : a, b, c \in EdgeBytes}
        \cup {FromBytes(<<239, 190, 173, 222>>)}

Value(prims, counts, recs) ==
    [prims |-> prims, counts |-> counts, recs |-> recs, nocount |-> {}]

Req(id, typ) == FieldEncoding(id, "Required", typ, 0, <<>>)
Opt(id, typ) == FieldEncoding(id, "Optional", typ, 0, <<>>)
Rep(id, typ) == FieldEncoding(id, "Repeated", typ, 0, <<>>)

Schema(req_fields, opt_rep_fields) ==
    CompleteEncoding(RecordEncoding(req_fields, opt_rep_fields), <<>>)

UInt(tag, n) == Primitive(tag, FromNat(n), <<>>, FALSE)

\* one required field of a primitive type, and a value for it
OneRequired(typ, prim) ==
    [enc |-> Schema(<<Req(1, typ)>>, <<>>), e |-> Value(<<1, 0>> :> prim, <<>>, <<>>)]

\* the schemas and values encoded, then decoded with the same schema
RecordInputs ==
    {[enc |-> Schema(<<>>, <<>>), e |-> Value(<<>>, <<>>, <<>>)]}
    \cup {OneRequired("UInt8", UInt("UInt8", n)) : n \in EdgeBytes}
    \cup {OneRequired("UInt32", UInt("UInt32", n)) : n \in {0, 1, 127, 128, 300}}
    \cup {OneRequired("UInt64", Primitive("UInt64", {63}, <<>>, FALSE)),
          OneRequired("Int64", Primitive("Int64", Bits(64), <<>>, FALSE)),
          OneRequired("Int32", Primitive("Int32", Bits(32), <<>>, FALSE)),
          OneRequired("Enum", UInt("Enum", 1)),
          OneRequired("UInt16", UInt("UInt16", 258)),
          OneRequired("Int8", UInt("Int8", 255)),
          OneRequired("Fixed32", Primitive("Fixed32", FromBytes(<<239, 190, 173, 222>>), <<>>, FALSE)),
          OneRequired("Fixed64", UInt("Fixed64", 1)),
          OneRequired("Float32", Primitive("Float32", FromBytes(<<0, 0, 128, 63>>), <<>>, FALSE)),
          OneRequired("Float64", Primitive("Float64", FromBytes(<<0, 0, 0, 0, 0, 0, 240, 63>>), <<>>, FALSE)),
          OneRequired("Bool", Primitive("Bool", {}, <<>>, TRUE)),
          OneRequired("Bool", Primitive("Bool", {}, <<>>, FALSE)),
          OneRequired("Bytes", Primitive("Bytes", {}, <<1, 2>>, FALSE)),
          OneRequired("String", Primitive("String", {}, <<104, 105>>, FALSE))}
    \cup {\* an optional String, present ("hi") and absent
          [enc |-> Schema(<<>>, <<Opt(5, "String")>>),
           e   |-> Value(<<5, 0>> :> Primitive("String", {}, <<104, 105>>, FALSE), 5 :> 1, <<>>)],
          [enc |-> Schema(<<>>, <<Opt(5, "String")>>), e |-> Value(<<>>, <<>>, <<>>)],
          \* a repeated Int32 [-1, 0, 1]
          [enc |-> Schema(<<>>, <<Rep(7, "Int32")>>),
           e   |-> Value(<<7, 0>> :> Primitive("Int32", Bits(32), <<>>, FALSE)
                           @@ <<7, 1>> :> UInt("Int32", 0) @@ <<7, 2>> :> UInt("Int32", 1),
                         7 :> 3, <<>>)],
          \* a required UInt8, then an optional UInt8 and a repeated Bool
          [enc |-> Schema(<<Req(1, "UInt8")>>, <<Opt(3, "UInt8"), Rep(4, "Bool")>>),
           e   |-> Value(<<1, 0>> :> UInt("UInt8", 9) @@ <<3, 0>> :> UInt("UInt8", 7)
                           @@ <<4, 0>> :> Primitive("Bool", {}, <<>>, TRUE)
                           @@ <<4, 1>> :> Primitive("Bool", {}, <<>>, FALSE),
                         3 :> 1 @@ 4 :> 2, <<>>)],
          \* a required array [2]uint8
          [enc |-> Schema(<<FieldEncoding(1, "Required", "UInt8", 0, <<2>>)>>, <<>>),
           e   |-> Value(<<1, 0>> :> UInt("UInt8", 3) @@ <<1, 1>> :> UInt("UInt8", 4), <<>>, <<>>)],
          \* a required record field whose record has one required UInt8
          [enc |-> CompleteEncoding(
                       RecordEncoding(<<FieldEncoding(1, "Required", "Record", 0, <<>>)>>, <<>>),
                       <<RecordEncoding(<<Req(1, "UInt8")>>, <<>>)>>),
           e   |-> Value(<<>>, <<>>,
                         <<1, 0>> :> Value(<<1, 0>> :> UInt("UInt8", 9), <<>>, <<>>))]}

\* a block of an optional or repeated field on the wire: the id, the size
\* prefix and the bytes the size prefix counts (ids and sizes below 0x80 are
\* one-byte uvarints)
Block(id, body) == [id |-> id, body |-> body]

RECURSIVE WireBlocks(_)
WireBlocks(bs) ==
    IF bs = <<>> THEN <<>>
    ELSE <<bs[1].id, Len(bs[1].body)>> \o bs[1].body \o WireBlocks(Tail(bs))

\* the bytes of a record: required payloads, blocks in ascending id, then 0
WireRecord(w) == w.req \o WireBlocks(w.blocks) \o <<0>>

Wire(req, blocks) == [req |-> req, blocks |-> blocks]

\* the records handed to the decoder, each with the decoder's schema
WireInputs ==
    {[enc |-> Schema(<<>>, <<>>), wire |-> Wire(<<>>, <<Block(5, <<2, 104, 105>>)>>)],
     [enc |-> Schema(<<>>, <<>>), wire |-> Wire(<<>>, <<Block(5, <<0>>)>>)],
     [enc |-> Schema(<<>>, <<>>), wire |-> Wire(<<>>, <<Block(5, <<129>>)>>)],
     [enc |-> Schema(<<>>, <<Opt(9, "UInt8")>>), wire |-> Wire(<<>>, <<Block(5, <<0>>)>>)],
     [enc |-> Schema(<<>>, <<Opt(9, "UInt8")>>), wire |-> Wire(<<>>, <<Block(5, <<129>>)>>)],
     [enc |-> Schema(<<>>, <<Opt(3, "UInt8")>>),
      wire |-> Wire(<<>>, <<Block(3, <<7>>), Block(5, <<0>>)>>)],
     [enc |-> Schema(<<>>, <<Opt(3, "UInt8"), Opt(9, "UInt8")>>),
      wire |-> Wire(<<>>, <<Block(3, <<7>>), Block(5, <<1, 2>>), Block(9, <<8>>)>>)],
     [enc |-> Schema(<<>>, <<Opt(3, "UInt8")>>), wire |-> Wire(<<>>, <<Block(3, <<7>>)>>)],
     [enc |-> Schema(<<Req(1, "UInt8")>>, <<Rep(7, "Int32")>>),
      wire |-> Wire(<<4>>, <<Block(7, <<3, 1, 0, 2>>)>>)],
     [enc |-> Schema(<<Req(1, "UInt8")>>, <<>>), wire |-> Wire(<<4>>, <<>>)]}

Trails == {<<>>, <<7>>, <<7, 0>>, <<255, 1>>}

\* the Decodable that accepts every element of every field
Recorder == Decodable({}, {})

\* a primitive of each variant
PrimOf(tag) ==
    CASE tag = "Bool" -> Primitive("Bool", {}, <<>>, TRUE)
      [] tag \in {"Bytes", "String"} -> Primitive(tag, {}, <<104>>, FALSE)
      [] OTHER -> UInt(tag, 1)

\* one required field of each primitive type, holding each variant
TypeInputs == {OneRequired(typ, PrimOf(tag)) : tag, typ \in PrimitiveTypes}

\* a schema whose one required field has type t, for has_type
TypeSchema(t) ==
    CompleteEncoding(RecordEncoding(<<FieldEncoding(1, "Required", t, 0, <<>>)>>, <<>>),
                     <<RecordEncoding(<<>>, <<>>)>>)

\* the elements 0 .. n-1 of field id, element i holding the UInt8 i
U8s(id, n) == [k \in {<<id, i>> : i \in 0 .. n - 1} |-> UInt("UInt8", k[2])]

\* the bytes 1 .. n
Count(n) == [i \in 1 .. n |-> i]

Arr(id, quant, typ, m) == FieldEncoding(id, quant, typ, 0, <<m>>)

Rec(id, quant, k) == FieldEncoding(id, quant, "Record", k, <<>>)

\* a required field, then optional and repeated fields a value may leave out
OrderSchema ==
    Schema(<<Req(1, "UInt8")>>, <<Opt(3, "UInt8"), Rep(4, "UInt8"), Opt(6, "UInt8")>>)

OrderInputs ==
    {[enc |-> OrderSchema,
      e   |-> Value(U8s(1, 1) @@ U8s(3, 1) @@ U8s(4, 2) @@ U8s(6, 1),
                    3 :> a @@ 4 :> b @@ 6 :> c, <<>>)] : a \in {0, 1}, b \in 0 .. 2, c \in {0, 1}}

\* a required array, a repeated array of bounds m, an optional array, a scalar
ArraySchema(m) ==
    Schema(<<Arr(1, "Required", "UInt8", 2)>>,
           <<Arr(2, "Repeated", "UInt8", m), Arr(3, "Optional", "UInt8", 2), Opt(5, "UInt8")>>)

\* bounds and counts of the repeated array: bounds 9 repeated twice is among them
ArrayShapes == {<<9, 2>>, <<3, 0>>, <<3, 1>>, <<3, 3>>, <<1, 2>>}

\* a required array [2] of records with one required UInt8
RecordArraySchema ==
    CompleteEncoding(RecordEncoding(<<FieldEncoding(1, "Required", "Record", 0, <<2>>)>>, <<>>),
                     <<RecordEncoding(<<Req(1, "UInt8")>>, <<>>)>>)

ArrayInputs ==
    {[enc |-> ArraySchema(mc[1]),
      e   |-> Value(U8s(1, 2) @@ U8s(2, mc[1] * mc[2]) @@ U8s(3, 2) @@ U8s(5, 1),
                    2 :> mc[2] @@ 3 :> o @@ 5 :> 1, <<>>)] : mc \in ArrayShapes, o \in {0, 1}}
    \cup {[enc |-> RecordArraySchema,
           e   |-> Value(<<>>, <<>>, <<1, 0>> :> Value(U8s(1, 1), <<>>, <<>>)
                                       @@ <<1, 1>> :> Value(U8s(1, 1), <<>>, <<>>))]}

ArrayWires ==
    {[enc  |-> ArraySchema(mc[1]),
      wire |-> Wire(<<3, 4>>, <<Block(2, <<mc[2]>> \o Count(mc[1] * mc[2])),
                               Block(3, <<7, 8>>), Block(5, <<9>>)>>)] : mc \in ArrayShapes}
    \cup {[enc |-> ArraySchema(3), wire |-> Wire(<<3, 4>>, <<Block(5, <<9>>)>>)],
          [enc |-> RecordArraySchema, wire |-> Wire(<<9, 0, 8, 0>>, <<>>)]}

\* schemas whose lists violate the quantifier split
SplitSchemas ==
    {Schema(<<Opt(1, "UInt8")>>, <<>>),
     Schema(<<Req(1, "UInt8"), Rep(2, "UInt8"), Req(3, "UInt8")>>, <<>>),
     Schema(<<>>, <<Req(5, "UInt8")>>),
     Schema(<<Req(1, "UInt8")>>, <<Opt(3, "UInt8"), Req(5, "UInt8"), Opt(6, "UInt8")>>)}

\* a value with one element of every field of the schemas above
SplitValue ==
    Value(U8s(1, 1) @@ U8s(2, 1) @@ U8s(3, 1) @@ U8s(5, 1) @@ U8s(6, 1),
          1 :> 1 @@ 2 :> 1 @@ 3 :> 1 @@ 5 :> 1 @@ 6 :> 1, <<>>)

SplitInputs == {[enc |-> c, e |-> SplitValue] : c \in SplitSchemas}

SplitWires ==
    {[enc  |-> Schema(<<>>, <<Req(5, "UInt8")>>), wire |-> Wire(<<>>, <<Block(5, <<7>>)>>)],
     [enc  |-> Schema(<<Req(1, "UInt8")>>, <<Opt(3, "UInt8"), Req(5, "UInt8"), Opt(6, "UInt8")>>),
      wire |-> Wire(<<9>>, <<Block(3, <<7>>), Block(5, <<8>>), Block(6, <<1>>)>>)],
     [enc  |-> Schema(<<Req(1, "UInt8")>>, <<Opt(3, "UInt8"), Req(5, "UInt8"), Opt(6, "UInt8")>>),
      wire |-> Wire(<<9>>, <<Block(3, <<7>>), Block(6, <<1>>)>>)]}

\* record types that depend on each other: Outer has a UInt8 and an Inner,
\* Inner has a Bool; Stray has a field whose dependency index is out of range
Inner == RecordEncoding(<<Req(3, "Bool")>>, <<>>)
Outer == RecordEncoding(<<Req(1, "UInt8"), Rec(2, "Required", 1)>>, <<>>)
Stray == RecordEncoding(<<Req(1, "UInt8"), Rec(2, "Required", 5)>>, <<>>)

InnerValue == Value(<<3, 0>> :> Primitive("Bool", {}, <<>>, TRUE), <<>>, <<>>)
OuterValue == Value(U8s(1, 1), <<>>, <<2, 0>> :> InnerValue)

\* a target with a field of type Record(k), repeated twice when quant says so
DependsSchemas ==
    {CompleteEncoding(RecordEncoding(<<Rec(1, "Required", 0)>>, <<>>), <<>>),
     CompleteEncoding(RecordEncoding(<<Req(1, "UInt8"), Rec(2, "Required", 2)>>, <<>>),
                      <<Outer, Inner>>),
     CompleteEncoding(RecordEncoding(<<Rec(1, "Required", 0)>>, <<>>), <<Outer, Inner>>),
     CompleteEncoding(RecordEncoding(<<Rec(1, "Required", 0)>>, <<>>), <<Stray, Inner>>),
     CompleteEncoding(RecordEncoding(<<Rec(2, "Required", 1)>>, <<Rec(4, "Repeated", 0)>>),
                      <<Outer, Inner>>)}

\* a value with an Outer, an Inner or two Outers where the schemas above ask
DependsValue ==
    Value(U8s(1, 1), 4 :> 2,
          <<1, 0>> :> OuterValue @@ <<2, 0>> :> InnerValue
              @@ <<4, 0>> :> OuterValue @@ <<4, 1>> :> OuterValue)

DependsInputs == {[enc |-> c, e |-> DependsValue] : c \in DependsSchemas}

\* an Outer on the wire: the UInt8 9, the Inner (true, 0), then 0
OuterBytes == <<9, 255, 0, 0>>

DependsWires ==
    {[enc  |-> CompleteEncoding(RecordEncoding(<<Rec(1, "Required", 0)>>, <<>>), <<>>),
      wire |-> Wire(OuterBytes, <<>>)],
     [enc  |-> CompleteEncoding(RecordEncoding(<<Req(1, "UInt8"), Rec(2, "Required", 2)>>, <<>>),
                                <<Outer, Inner>>),
      wire |-> Wire(<<9, 255, 0>>, <<>>)],
     [enc  |-> CompleteEncoding(RecordEncoding(<<Rec(1, "Required", 0)>>, <<>>), <<Outer, Inner>>),
      wire |-> Wire(OuterBytes, <<>>)],
     [enc  |-> CompleteEncoding(RecordEncoding(<<Rec(1, "Required", 0)>>, <<>>), <<Stray, Inner>>),
      wire |-> Wire(OuterBytes, <<>>)],
     [enc  |-> CompleteEncoding(RecordEncoding(<<Rec(2, "Required", 1)>>, <<Rec(4, "Repeated", 0)>>),
                                <<Outer, Inner>>),
      wire |-> Wire(<<255, 0>>, <<Block(4, <<2>> \o OuterBytes \o OuterBytes)>>)]}

\* f without the element k
Without(f, k) == [j \in DOMAIN f \ {k} |-> f[j]]

\* three required fields, then an optional and a repeated field
ThreeSchema ==
    Schema(<<Req(1, "UInt8"), Req(2, "UInt8"), Req(3, "UInt8")>>,
           <<Opt(4, "UInt8"), Rep(5, "UInt8")>>)

ThreeValue ==
    Value(U8s(1, 1) @@ U8s(2, 1) @@ U8s(3, 1) @@ U8s(4, 1) @@ U8s(5, 3), 4 :> 1 @@ 5 :> 3, <<>>)

\* an Outer whose Inner has no element to give, and an Outer with no Inner
HollowOuter == Value(U8s(1, 1), <<>>, <<2, 0>> :> Value(<<>>, <<>>, <<>>))
BareOuter == Value(U8s(1, 1), <<>>, <<>>)

\* values whose callbacks fail: an element is missing or of another variant,
\* a count cannot be told, a nested value fails
FailInputs ==
    {[enc |-> ThreeSchema, e |-> ThreeValue]}
    \cup {[enc |-> ThreeSchema, e |-> [ThreeValue EXCEPT !.prims = Without(@, k)]] :
              k \in {<<1, 0>>, <<2, 0>>, <<4, 0>>, <<5, 1>>}}
    \cup {[enc |-> ThreeSchema,
           e   |-> [ThreeValue EXCEPT !.prims = (<<2, 0>> :> PrimOf("Bool")) @@ @]],
          [enc |-> ThreeSchema, e |-> [ThreeValue EXCEPT !.nocount = {4}]],
          [enc |-> ThreeSchema, e |-> [ThreeValue EXCEPT !.nocount = {5}]],
          [enc |-> ThreeSchema, e |-> [ThreeValue EXCEPT !.nocount = {4, 5}]]}
    \cup {[enc |-> CompleteEncoding(RecordEncoding(<<Rec(2, "Required", 1)>>,
                                                   <<Rec(4, "Repeated", 0)>>),
                                    <<Outer, Inner>>),
           e   |-> [DependsValue EXCEPT !.recs = (<<4, 1>> :> o) @@ @]] :
              o \in {HollowOuter, BareOuter}}

\* the Decodables that reject an element, with the record they are given
FailWires ==
    {[enc  |-> ThreeSchema,
      wire |-> Wire(<<4, 5, 6>>, <<Block(4, <<7>>), Block(5, <<3, 1, 2, 3>>)>>),
      d    |-> Decodable(f, {})] :
         f \in {{<<<<>>, 2, 0>>}, {<<<<>>, 4, 0>>}, {<<<<>>, 5, 1>>},
                {<<<<>>, 1, 0>>, <<<<>>, 3, 0>>}}}
    \cup {[enc  |-> CompleteEncoding(RecordEncoding(<<Rec(2, "Required", 1)>>,
                                                    <<Rec(4, "Repeated", 0)>>),
                                     <<Outer, Inner>>),
           wire |-> Wire(<<255, 0>>, <<Block(4, <<2>> \o OuterBytes \o OuterBytes)>>),
           d    |-> Decodable({<<p, 3, 0>>}, {})] :
              p \in {<<<<2, 0>>>>, <<<<4, 0>>, <<2, 0>>>>, <<<<4, 1>>, <<2, 0>>>>}}
    \cup {\* a String that is not UTF-8, then a UInt8
          [enc  |-> Schema(<<Req(1, "String"), Req(2, "UInt8")>>, <<>>),
           wire |-> Wire(<<1, 255, 7>>, <<>>), d |-> Recorder]}

\* a Bool in every byte value, and a repeated Bool with one element b
BoolWires ==
    {[enc |-> Schema(<<Req(1, "Bool")>>, <<>>), wire |-> Wire(<<b>>, <<>>)] : b \in 0 .. 255}
    \cup {[enc  |-> Schema(<<>>, <<Rep(4, "Bool")>>),
           wire |-> Wire(<<>>, <<Block(4, <<3, 255, b, 0>>)>>)] : b \in {0, 1, 254, 255}}

BoolInputs ==
    {[enc |-> Schema(<<Req(1, "Bool")>>, <<Rep(4, "Bool")>>),
      e   |-> Value(<<1, 0>> :> Primitive("Bool", {}, <<>>, a)
                      @@ <<4, 0>> :> Primitive("Bool", {}, <<>>, b)
                      @@ <<4, 1>> :> Primitive("Bool", {}, <<>>, ~b),
                    4 :> 2, <<>>)] : a, b \in BOOLEAN}

\* records of which every strict prefix is handed to the decoder
ShortInputs ==
    {[enc |-> Schema(<<>>, <<>>), wire |-> Wire(<<>>, <<>>)],
     [enc |-> Schema(<<Req(1, "UInt8")>>, <<>>), wire |-> Wire(<<4>>, <<>>)],
     [enc |-> Schema(<<Req(1, "UInt32")>>, <<>>), wire |-> Wire(<<172, 2>>, <<>>)],
     [enc |-> Schema(<<Req(1, "Fixed32")>>, <<>>), wire |-> Wire(<<1, 2, 3, 4>>, <<>>)],
     [enc |-> Schema(<<Req(1, "String")>>, <<>>), wire |-> Wire(<<2, 104, 105>>, <<>>)],
     [enc  |-> Schema(<<Req(1, "UInt8")>>, <<Rep(7, "Int32")>>),
      wire |-> Wire(<<4>>, <<Block(7, <<3, 1, 0, 2>>)>>)],
     [enc  |-> Schema(<<>>, <<Opt(3, "UInt8"), Opt(9, "UInt8")>>),
      wire |-> Wire(<<>>, <<Block(3, <<7>>), Block(5, <<1, 2>>), Block(9, <<8>>)>>)],
     [enc  |-> CompleteEncoding(RecordEncoding(<<Rec(1, "Required", 0)>>, <<>>), <<Outer, Inner>>),
      wire |-> Wire(OuterBytes, <<>>)]}

\* a repeated field and an optional field, for a Decodable that may decline
DeclineWires ==
    {[enc  |-> Schema(<<Req(1, "UInt8")>>, <<Rep(7, "Int32"), Opt(9, "UInt8")>>),
      wire |-> Wire(<<4>>, <<Block(7, <<3, 1, 0, 2>>), Block(9, <<8>>)>>),
      d    |-> Decodable({}, ids)] : ids \in {{}, {7}, {9}}}

\* a FieldEncoding { id: 1, name: "a", quant: Required, typ: UInt8, bounds }
\* behind an Encodable that follows COMPLETE_ENC: with bounds: None it has no
\* element to give for the field bounds
FieldValue(bounds) ==
    LET all == <<1, 0>> :> UInt("UInt64", 1)
                 @@ <<2, 0>> :> Primitive("String", {}, <<97>>, FALSE)
                 @@ <<3, 0>> :> UInt("Enum", 0)
                 @@ <<4, 0>> :> UInt("Enum", 4)
                 @@ <<5, 0>> :> UInt("UInt64", IF bounds = <<>> THEN 0 ELSE bounds[1])
    IN  Value(IF bounds = <<>> THEN Without(all, <<5, 0>>) ELSE all, <<>>, <<>>)

\* a CompleteEncoding { target: { name: "T", req_fields: [the field above] } }
\* encoded with COMPLETE_ENC
BootInputs ==
    {[enc |-> COMPLETE_ENC,
      e   |-> Value(<<>>, 2 :> 0,
                    <<1, 0>> :> Value(<<1, 0>> :> Primitive("String", {}, <<84>>, FALSE),
                                      2 :> 1 @@ 3 :> 0,
                                      <<2, 0>> :> FieldValue(b)))] : b \in {<<>>, <<9>>}}

NoEncoding == Schema(<<>>, <<>>)
NoValue == Value(<<>>, <<>>, <<>>)
NoWire == Wire(<<>>, <<>>)

Job(o, v, c, a, w, t) ==
    [op |-> o, x |-> v, enc |-> c, e |-> a, wire |-> w, trail |-> t, d |-> Recorder]

\* the job j with the Decodable d
Told(j, d) == [j EXCEPT !.d = d]

\* the records encoded beside RecordInputs
MoreRecordInputs ==
    TypeInputs \cup OrderInputs \cup ArrayInputs \cup SplitInputs \cup DependsInputs
        \cup FailInputs \cup BoolInputs \cup BootInputs

\* a record with an optional record field and an optional UInt8 after it; the
\* record type of the field has no field of its own
MergeSchema ==
    CompleteEncoding(RecordEncoding(<<>>, <<Rec(1, "Optional", 0), Opt(2, "UInt8")>>),
                     <<RecordEncoding(<<>>, <<>>)>>)

\* blocks in ascending id for sorted schemas: blocks the schema does not know
\* before and between those it knows, schema entries with no block, and a
\* nested record that is empty or carries a block its record type does not know
MergeWires ==
    {[enc  |-> Schema(<<Req(1, "UInt8")>>,
                      <<Opt(3, "UInt8"), Rep(5, "UInt8"), Opt(8, "UInt8"), Rep(9, "Bool")>>),
      wire |-> Wire(<<4>>, <<Block(2, <<1>>), Block(5, <<2, 10, 11>>), Block(6, <<1, 2>>),
                            Block(8, <<7>>)>>)],
     [enc  |-> Schema(<<>>, <<Opt(3, "UInt8"), Rep(5, "UInt8"), Opt(8, "UInt8")>>),
      wire |-> Wire(<<>>, <<Block(3, <<6>>), Block(5, <<0>>), Block(8, <<7>>)>>)],
     [enc  |-> MergeSchema, wire |-> Wire(<<>>, <<Block(1, <<0>>), Block(2, <<7>>)>>)],
     [enc  |-> MergeSchema, wire |-> Wire(<<>>, <<Block(1, <<9, 1, 5, 0>>), Block(2, <<7>>)>>)],
     [enc  |-> MergeSchema, wire |-> Wire(<<>>, <<Block(1, <<9, 1, 0, 0>>), Block(2, <<7>>)>>)]}

\* varints of a 32-bit field: values that fit, five bytes that carry 2^32 + 5,
\* 2^33 + 2 and 2^35 - 1, 2^35 - 2, and ten bytes that fill the 64 bits
NarrowVarints ==
    {<<0>>, <<1>>, <<4>>, <<5>>, <<172, 2>>,
     <<144, 128, 128, 128, 5>>, <<160, 128, 128, 128, 2>>,
     <<255, 255, 255, 255, 127>>, <<255, 255, 255, 255, 126>>,
     <<255, 255, 255, 255, 255, 255, 255, 255, 255, 127>>,
     <<255, 255, 255, 255, 255, 255, 255, 255, 255, 126>>}

\* a UInt32 or Int32 field, required or optional, with each of the varints
NarrowWires ==
    {[enc |-> Schema(<<Req(1, t)>>, <<>>), wire |-> Wire(w, <<>>)] :
         t \in {"UInt32", "Int32"}, w \in NarrowVarints}
    \cup {[enc |-> Schema(<<>>, <<Opt(2, t)>>), wire |-> Wire(<<>>, <<Block(2, w)>>)] :
              t \in {"UInt32", "Int32"}, w \in NarrowVarints}

\* the byte strings decoded as they are: a record then 0, whatever the schema
\* makes of it
ByteInputs == SplitWires \cup DependsWires \cup BoolWires \cup MergeWires \cup NarrowWires

\* the byte strings handed to read_varint as they are: one and two byte
\* varints, and ten bytes that fill the 64 bits
VarintWires ==
    {<<b>> : b \in {0, 1, 2, 3, 4, 5, 126, 127}}
    \cup {<<129, 0>>, <<129, 1>>, <<255, 127>>, <<255, 126>>}
    \cup {<<255, 255, 255, 255, 255, 255, 255, 255, 255, 127>>,
          <<255, 255, 255, 255, 255, 255, 255, 255, 255, 126>>}

MoreJobs ==
    {Job("record", {}, r.enc, r.e, NoWire, <<>>) : r \in MoreRecordInputs}
    \cup {Job("wire", {}, w.enc, NoValue, w.wire, t) : w \in ArrayWires, t \in Trails}
    \cup {Job("bytes", {}, w.enc, NoValue, w.wire, <<>>) : w \in ByteInputs}
    \cup {Told(Job("bytes", {}, w.enc, NoValue, w.wire, <<>>), w.d) :
              w \in FailWires \cup DeclineWires}
    \cup {Job("short", {}, w.enc, NoValue, w.wire, <<>>) : w \in ShortInputs}
    \cup {Job("zigzag", {}, NoEncoding, NoValue, Wire(w, <<>>), <<>>) :
              w \in VarintWires}
    \cup {Job("has_type", {}, TypeSchema(t), Value(<<1, 0>> :> PrimOf(tag), <<>>, <<>>),
              NoWire, <<>>) : tag \in PrimitiveTypes, t \in PrimitiveTypes \cup {"Record"}}

\* the sources a job may hand to the decoder
Sources(j) ==
    CASE j.op = "wire"  -> {WireRecord(j.wire) \o j.trail}
      [] j.op = "bytes" -> {WireRecord(j.wire)}
      [] j.op = "zigzag" -> {j.wire.req}
      [] j.op = "short" ->
             {SubSeq(WireRecord(j.wire), 1, n) : n \in 0 .. Len(WireRecord(j.wire)) - 1}
      [] OTHER -> {<<>>}

NoFault == [err |-> "", at |-> 0, seen |-> 0]

\* the error r, with the bytes and the calls made when it arose
Fault(r) == IF r.err = "" THEN NoFault ELSE [err |-> r.err, at |-> r.at, seen |-> r.seen]

Jobs ==
    {Job("uvarint", v, NoEncoding, NoValue, NoWire, <<>>) : v \in U64Inputs}
    \cup {Job("varint", v, NoEncoding, NoValue, NoWire, <<>>) : v \in U64Inputs}
    \cup {Job("le_u16", v, NoEncoding, NoValue, NoWire, <<>>) : v \in U16Inputs}
    \cup {Job("le_u32", v, NoEncoding, NoValue, NoWire, <<>>) : v \in U32Inputs}
    \cup {Job("le_u64", v, NoEncoding, NoValue, NoWire, <<>>) : v \in U64Inputs}
    \cup {Job("record", {}, r.enc, r.e, NoWire, <<>>) : r \in RecordInputs}
    \cup {Job("wire", {}, w.enc, NoValue, w.wire, t) : w \in WireInputs, t \in Trails}
    \cup MoreJobs


----------------------------------------------------------------------------
(* The state machine: a job is drawn, its writer runs, then its reader runs *)
(* on the bytes written.  A wire, bytes, short or zigzag job starts with    *)
(* the bytes in the source.                                                 *)

Init ==
    \E j \in Jobs :
        /\ op = j.op /\ x = j.x /\ enc = j.enc /\ value = j.e
        /\ wire = j.wire /\ trail = j.trail /\ dable = j.d
        /\ pc = IF j.op \in {"wire", "bytes", "short", "zigzag"} THEN "written" ELSE "start"
        /\ src \in Sources(j)
        /\ fault = NoFault
        /\ next_field = 0 /\ next_id = {}
        /\ data = <<>> /\ chunks = <<>> /\ spans = <<>>
        /\ ret = [err |-> "", n |-> 0]
        /\ elog = <<>> /\ dlog = <<>>
        /\ pos = 0
        /\ res = [err |-> "", v |-> {}]

\* a writer of the byte codec ran on the empty sink
Written(wr) ==
    /\ pc' = "written"
    /\ data' = wr.w
    /\ ret' = [err |-> "", n |-> wr.n]
    /\ src' = wr.w
    /\ UNCHANGED <<op, x, enc, value, wire, trail, chunks, spans, elog, pos, res, dlog,
                   dable, fault, next_field, next_id>>

\* a reader of the byte codec ran on the source
Read(r) ==
    /\ pc' = "read"
    /\ res' = [err |-> r.err, v |-> r.v]
    /\ pos' = r.pos
    /\ UNCHANGED <<op, x, enc, value, wire, trail, data, chunks, spans, ret, elog, src, dlog,
                   dable, fault, next_field, next_id>>

WriteUvarint == pc = "start" /\ op = "uvarint" /\ Written(write_uvarint(data, x))
WriteVarint  == pc = "start" /\ op = "varint" /\ Written(write_varint(data, x))
WriteLeU16   == pc = "start" /\ op = "le_u16" /\ Written(write_le_u16(data, x))
WriteLeU32   == pc = "start" /\ op = "le_u32" /\ Written(write_le_u32(data, x))
WriteLeU64   == pc = "start" /\ op = "le_u64" /\ Written(write_le_u64(data, x))

ReadUvarint == pc = "written" /\ op = "uvarint" /\ Read(read_uvarint(src, pos))
ReadVarint  == pc = "written" /\ op \in {"varint", "zigzag"} /\ Read(read_varint(src, pos))
ReadLeU16   == pc = "written" /\ op = "le_u16" /\ Read(read_le_u16(src, pos))
ReadLeU32   == pc = "written" /\ op = "le_u32" /\ Read(read_le_u32(src, pos))
ReadLeU64   == pc = "written" /\ op = "le_u64" /\ Read(read_le_u64(src, pos))

\* Encoder::encode on a frame for enc.target with empty buffers
Encode ==
    /\ pc = "start" /\ op = "record"
    /\ LET r == encode(Encoder(enc.target, enc.depends), value, <<>>,
                       [data |-> data, chunks |-> chunks, log |-> elog, spans |-> spans])
       IN  /\ data' = r.st.data
           /\ chunks' = r.st.chunks
           /\ spans' = r.st.spans
           /\ elog' = r.st.log
           /\ ret' = [err |-> r.err, n |-> r.n]
           /\ src' = r.st.data
           /\ fault' = Fault(r)
    /\ pc' = "written"
    /\ UNCHANGED <<op, x, enc, value, wire, trail, pos, res, dlog, dable, next_field, next_id>>

\* decode_from on the source, when there is a record to read
Decode ==
    /\ pc = "written" /\ op \in {"record", "wire", "bytes", "short"} /\ ret.err = ""
    /\ LET r == decode_from(enc, src, dable)
       IN  /\ res' = [err |-> r.err, v |-> {}]
           /\ pos' = r.st.pos
           /\ dlog' = r.st.log
           /\ fault' = Fault(r)
    /\ pc' = "read"
    /\ UNCHANGED <<op, x, enc, value, wire, trail, data, chunks, spans, ret, elog, src, dable,
                   next_field, next_id>>

\* Primitive::has_type on the element of the value and the type of the field
HasType ==
    /\ pc = "start" /\ op = "has_type"
    /\ res' = [err |-> "", v |-> has_type(value.prims[<<1, 0>>], enc.target.req_fields[1].typ)]
    /\ pc' = "read"
    /\ UNCHANGED <<x, op, enc, value, wire, trail, data, chunks, spans, ret, elog, src, pos,
                   dlog, dable, fault, next_field, next_id>>

Next ==
    \/ WriteUvarint \/ WriteVarint \/ WriteLeU16 \/ WriteLeU32 \/ WriteLeU64
    \/ ReadUvarint \/ ReadVarint \/ ReadLeU16 \/ ReadLeU32 \/ ReadLeU64
    \/ Encode \/ Decode \/ HasType

Spec == Init /\ [][Next]_vars

----------------------------------------------------------------------------
(* The wire format the properties are stated against.                       *)

\* the unsigned varint of v: base 128, least significant group first, the
\* high bit set on every byte but the last
RECURSIVE Base128(_)
Base128(v) ==
    IF \A i \in v : i < 7 THEN <<ToNat(v)>>
    ELSE <<128 + ToNat(v \cap Bits(7))>> \o Base128(Shr(v, 7))

\* the n bytes of v, least significant byte first
LittleEndian(v, n) == [k \in 1 .. n |-> ToNat({i - 8 * (k - 1) : i \in v \cap (8 * (k - 1) .. 8 * k - 1)})]

\* the elements of a log, in order: field id, index and primitive value, with
\* the path of the record they belong to
Elements(log, call) ==
    LET evs == SelectSeq(log, LAMBDA ev : ev.call = call)
    IN  [i \in 1 .. Len(evs) |-> <<evs[i].path, evs[i].id, evs[i].idx, evs[i].prim>>]

Encoded == pc \in {"written", "read"} /\ op = "record" /\ ret.err = ""

\* C1: round trip: decoding what encode produced, with the same schema,
\* succeeds and delivers to the Decodable, element by element (same field id,
\* same index, same primitive value), exactly what the Encodable supplied.
C1_RoundTrip ==
    (pc = "read" /\ op = "record") =>
        /\ res.err = ""
        /\ Elements(dlog, "set_primitive") = Elements(elog, "get_primitive")

\* the number of bytes of the output: the bytes staged in data and the
\* byte-size prefixes pending in chunks
RECURSIVE PendingBytes(_)
PendingBytes(cs) ==
    IF cs = <<>> THEN 0
    ELSE Len(Base128(FromNat(cs[1].size))) + PendingBytes(Tail(cs))

WireLength == Len(data) + PendingBytes(chunks)

\* C2: whenever encode succeeds, the usize it returns is the exact number of
\* bytes the encoded record occupies on the wire.
C2_ReturnedLength == Encoded => ret.n = WireLength

\* C3: unsigned varint round trip: read_uvarint on the bytes write_uvarint(u)
\* emitted returns u and consumes exactly the bytes emitted.
C3_UvarintRoundTrip ==
    (pc = "read" /\ op = "uvarint") =>
        /\ res.err = ""
        /\ res.v = x
        /\ pos = Len(data)

\* C4: write_uvarint(u) appends exactly uvarint_size(u) bytes (1 when
\* u < 0x80, 10 when u >= 0x80 << 56, never more than 10), returns that
\* number, and every byte but the last has its high bit set while the last
\* has it clear.
C4_UvarintLength ==
    (pc \in {"written", "read"} /\ op = "uvarint") =>
        /\ Len(data) = uvarint_size(x)
        /\ ret.n = Len(data)
        /\ (\A i \in x : i < 7) => Len(data) = 1
        /\ 63 \in x => Len(data) = 10
        /\ Len(data) <= 10
        /\ \A i \in 1 .. Len(data) : (data[i] >= 128) <=> (i < Len(data))

\* C5: zig-zag round trip: read_varint on the bytes write_varint(i) emitted
\* returns i; 0, -1 and 1 are emitted as the single bytes 0x00, 0x01, 0x02.
C5_ZigZagRoundTrip ==
    (pc = "read" /\ op = "varint") =>
        /\ res.err = ""
        /\ res.v = x
        /\ x = {} => data = <<0>>
        /\ x = Bits(64) => data = <<1>>
        /\ x = {0} => data = <<2>>

Width == CASE op = "le_u16" -> 2 [] op = "le_u32" -> 4 [] op = "le_u64" -> 8

\* C6: fixed-width parity: write_le_uN(x) emits the bytes of x least
\* significant byte first, and read_le_uN on those bytes returns x.
C6_FixedWidthParity ==
    (pc = "read" /\ op \in {"le_u16", "le_u32", "le_u64"}) =>
        /\ data = LittleEndian(x, Width)
        /\ res.err = ""
        /\ res.v = x

\* C7: every encoded record ends with exactly one terminator byte 0x00,
\* written after all of its fields; for a schema with no fields the whole
\* output is the single byte 0x00 and the returned length is 1.
C7_Terminator ==
    Encoded =>
        /\ \A i \in 1 .. Len(spans) :
               spans[i].kind = "Terminator" =>
                   /\ spans[i].to = spans[i].from + 1
                   /\ data[spans[i].to] = 0
        /\ spans # <<>>
        /\ spans[Len(spans)].kind = "Terminator"
        /\ spans[Len(spans)].to = Len(data)
        /\ (enc.target.req_fields = <<>> /\ enc.target.opt_rep_fields = <<>>) =>
               (data = <<0>> /\ ret.n = 1)

\* the number of bytes of a block after its size prefix: the payload and,
\* for Repeated, the uvarint of the count
BlockSize(sp) ==
    IF sp.kind = "Optional" THEN sp.to - sp.from
    ELSE Len(Base128(FromNat(sp.count))) + sp.to - sp.from

\* the uvarint of the count of a Repeated block
BlockCount(sp) == IF sp.kind = "Optional" THEN <<>> ELSE Base128(FromNat(sp.count))

\* the bytes pre are in data immediately before the payload of sp
Precedes(pre, sp) ==
    /\ sp.from >= Len(pre)
    /\ SubSeq(data, sp.from - Len(pre) + 1, sp.from) = pre

\* the id, the size prefix and the count of sp are staged in data
PrefixStaged(sp) ==
    Precedes(Base128(FromNat(sp.id)) \o Base128(FromNat(BlockSize(sp))) \o BlockCount(sp), sp)

\* the id and the count of sp are staged in data and the size prefix is
\* pending in chunks, to be written between them
PrefixPending(sp) ==
    /\ Precedes(Base128(FromNat(sp.id)) \o BlockCount(sp), sp)
    /\ \E i \in 1 .. Len(chunks) :
           /\ chunks[i].offset = sp.from - Len(BlockCount(sp))
           /\ chunks[i].size = BlockSize(sp)

\* C8: for every optional or repeated field with a non-zero count, the output
\* has, immediately before the field's payload, the id as a uvarint, then the
\* size prefix (the number of bytes that follow it in the block) as a uvarint
\* and, for Repeated, the uvarint of the count.
C8_BlockPrefixes ==
    Encoded =>
        \A i \in 1 .. Len(spans) :
            spans[i].kind \in {"Optional", "Repeated"} =>
                PrefixStaged(spans[i]) \/ PrefixPending(spans[i])

\* the ids of the blocks on the wire that the decoder's schema does not have
UnknownIds ==
    {wire.blocks[i].id : i \in 1 .. Len(wire.blocks)}
        \ {enc.target.opt_rep_fields[k].id : k \in 1 .. Len(enc.target.opt_rep_fields)}

\* C9: skip-unknown: when the wire carries a block whose id is not in
\* opt_rep_fields, decode succeeds, makes no callback for that block, and
\* consumes exactly the block (so that the record is consumed exactly),
\* whether or not a later schema entry with a larger id exists.
C9_SkipUnknown ==
    (pc = "read" /\ op = "wire" /\ UnknownIds # {}) =>
        /\ res.err = ""
        /\ \A i \in 1 .. Len(dlog) : dlog[i].id \notin UnknownIds
        /\ pos = Len(WireRecord(wire))

\* C10: decode reads exactly one record: on a well-formed record followed by
\* trailing bytes it stops on the first byte after the terminator, having
\* consumed none of the trailing bytes.
C10_ExactlyOneRecord ==
    (pc = "read" /\ op = "wire") => pos = Len(src) - Len(trail)

----------------------------------------------------------------------------
(* Errors of the decoder and callbacks of the Decodable.                    *)

\* C11: short-read policy: when the source ends before the decoder has all
\* the bytes it expects (inside a required field, inside a uvarint, before an
\* id, a size prefix or a count, before all the elements of a repeated field,
\* or before the terminator), decode returns the EOF error, never Ok.
C11_ShortRead == (pc = "read" /\ op = "short") => res.err = "EOF"

\* the fields of a record type, in the order the codec processes them
FieldsOf(rec) == rec.req_fields \o rec.opt_rep_fields

\* the field of rec with this id
FieldIn(rec, id) ==
    FieldsOf(rec)[CHOOSE i \in 1 .. Len(FieldsOf(rec)) : FieldsOf(rec)[i].id = id]

\* the record type of the record at path, from the target of enc down through
\* the dependency index of each field on the path
RECURSIVE FrameOf(_)
FrameOf(path) ==
    IF path = <<>> THEN enc.target
    ELSE enc.depends[FieldIn(FrameOf(SubSeq(path, 1, Len(path) - 1)),
                             path[Len(path)][1]).index + 1]

\* event i of the decoder's log delivers an element of a field
Delivered(i) == dlog[i].call \in {"set_primitive", "decode_record"}

\* the number of elements of the field of event i that were delivered
DeliveredOf(i) ==
    Cardinality({k \in 1 .. Len(dlog) :
                    Delivered(k) /\ dlog[k].path = dlog[i].path /\ dlog[k].id = dlog[i].id})

\* the number of elements of one occurrence of the field f
PerOccurrence(f) == IF f.bounds = <<>> THEN 1 ELSE f.bounds[1]

\* C12: before delivering any element of a repeated field with wire count N
\* the decoder calls alloc_field(id, N); if the Decodable answers false, no
\* element of the field is delivered and the payload is skipped as for an
\* unknown field, so that the rest of the record is decoded.
C12_AllocField ==
    (pc = "read" /\ op \in {"wire", "bytes"}) =>
        /\ \A i \in 1 .. Len(dlog) :
               (/\ Delivered(i)
                /\ FieldIn(FrameOf(dlog[i].path), dlog[i].id).quant = "Repeated") =>
                   /\ alloc_field(dable, dlog[i].id, DeliveredOf(i)).interested
                   /\ \E j \in 1 .. i - 1 :
                          /\ dlog[j].call = "alloc_field"
                          /\ dlog[j].path = dlog[i].path
                          /\ dlog[j].id = dlog[i].id
                          /\ dlog[j].n * PerOccurrence(FieldIn(FrameOf(dlog[i].path), dlog[i].id))
                                 = DeliveredOf(i)
        /\ dable.decline # {} => (res.err = "" /\ pos = Len(src))

----------------------------------------------------------------------------
(* Order of the fields.                                                     *)

\* the ids of fs are strictly ascending
Sorted(fs) == \A i, j \in 1 .. Len(fs) : i < j => fs[i].id < fs[j].id

\* the field lists of every record type of enc are sorted by id
SortedEncoding ==
    /\ Sorted(enc.target.req_fields) /\ Sorted(enc.target.opt_rep_fields)
    /\ \A k \in 1 .. Len(enc.depends) :
           Sorted(enc.depends[k].req_fields) /\ Sorted(enc.depends[k].opt_rep_fields)

\* the ids of a sequence of events or fields, in order
Ids(evs) == [i \in 1 .. Len(evs) |-> evs[i].id]

\* the count_field calls made for the record at path
CountCalls(path) == SelectSeq(elog, LAMBDA ev : ev.call = "count_field" /\ ev.path = path)

\* span i is the payload of a block
IsBlock(i) == spans[i].kind \in {"Optional", "Repeated"}

\* the fields of opt_rep_fields of the target that the value has members of
Present == SelectSeq(enc.target.opt_rep_fields, LAMBDA f : count_field(value, f.id).n # 0)

\* what encode returns for the target without the fields the value has no
\* member of
EncodedPresent ==
    encode(Encoder(RecordEncoding(enc.target.req_fields, Present), enc.depends), value, <<>>,
           [data |-> <<>>, chunks |-> <<>>, log |-> <<>>, spans |-> <<>>])

\* C13: with sorted schema lists the encoder processes optional and repeated
\* fields strictly in ascending id order and never emits the block of a field
\* before the block of a field with a smaller id; a field whose count_field
\* result is 0 contributes no bytes and adds 0 to the returned total.
C13_AscendingBlocks ==
    (Encoded /\ SortedEncoding) =>
        /\ Ids(CountCalls(<<>>)) = Ids(enc.target.opt_rep_fields)
        /\ \A i \in 1 .. Len(elog) : Sorted(CountCalls(elog[i].path))
        /\ \A i, j \in 1 .. Len(spans) :
               (IsBlock(i) /\ IsBlock(j) /\ i < j /\ spans[i].path = spans[j].path) =>
                   (spans[i].id < spans[j].id /\ spans[i].to <= spans[j].from)
        /\ \A i \in 1 .. Len(spans) : IsBlock(i) => spans[i].count # 0
        /\ EncodedPresent.st.data = data
        /\ EncodedPresent.n = ret.n

\* a value with no member of field 3, two of field 4 and one of field 6 has
\* been encoded: two blocks, in this order
C13_Witness ==
    /\ Encoded /\ enc = OrderSchema
    /\ Ids(CountCalls(<<>>)) = <<3, 4, 6>>
    /\ count_field(value, 3).n = 0
    /\ Ids(SelectSeq(spans, LAMBDA sp : sp.kind # "Terminator")) = <<4, 6>>

\* the elements of the fields of the top-level record that a log shows
\* visited, in order: <<id, index>>
Visits(log) ==
    LET evs == SelectSeq(log, LAMBDA ev :
                   /\ ev.path = <<>>
                   /\ ev.call \in {"get_primitive", "encode_record",
                                   "set_primitive", "decode_record"})
    IN  [i \in 1 .. Len(evs) |-> <<evs[i].id, evs[i].idx>>]

\* the indices 0 .. n-1 of field id
Run(id, n) == [i \in 1 .. n |-> <<id, i - 1>>]

\* the outer occurrences of field f that the value has: one of a required
\* field, one of an optional field with members, the count of a repeated field
ValueOccurrences(f) ==
    CASE f.quant = "Required" -> 1
      [] f.quant = "Optional" -> IF count_field(value, f.id).n = 0 THEN 0 ELSE 1
      [] f.quant = "Repeated" -> count_field(value, f.id).n

\* the outer occurrences of field f that the wire has: the count of a
\* repeated field is the first byte after the size prefix of its block
WireOccurrences(f) ==
    LET bs == SelectSeq(wire.blocks, LAMBDA b : b.id = f.id)
    IN  CASE f.quant = "Required" -> 1
          [] f.quant = "Optional" -> Len(bs)
          [] f.quant = "Repeated" -> IF bs = <<>> THEN 0 ELSE bs[1].body[1]

\* the flattened indices of the fields fs with occs[i] occurrences of fs[i],
\* field after field
RECURSIVE Flattened(_, _)
Flattened(fs, occs) ==
    IF fs = <<>> THEN <<>>
    ELSE Run(fs[1].id, occs[1] * PerOccurrence(fs[1])) \o Flattened(Tail(fs), Tail(occs))

TargetFields == FieldsOf(enc.target)

HasArray == \E i \in 1 .. Len(TargetFields) : TargetFields[i].bounds # <<>>

\* C14: bounded-array flattening: a field with bounds = Some(m) is visited, for
\* its occurrence idx, at the absolute indices idx*m .. idx*m+m-1 in ascending
\* order (get_primitive / encode_record on encode, set_primitive /
\* decode_record on decode), all of them before any element of a later field.
C14_Flattening ==
    /\ (Encoded /\ HasArray) =>
           Visits(elog) = Flattened(TargetFields,
                                    [i \in 1 .. Len(TargetFields) |->
                                        ValueOccurrences(TargetFields[i])])
    /\ (pc = "read" /\ op = "wire" /\ HasArray) =>
           /\ res.err = ""
           /\ Visits(dlog) = Flattened(TargetFields,
                                       [i \in 1 .. Len(TargetFields) |->
                                           WireOccurrences(TargetFields[i])])

\* a field of bounds 9 repeated twice has been decoded: 18 calls at indices
\* 0 .. 17, after the required array and before the fields 3 and 5
C14_Witness ==
    /\ pc = "read" /\ op = "wire" /\ enc = ArraySchema(9)
    /\ Visits(dlog) = Run(1, 2) \o Run(2, 18) \o Run(3, 2) \o Run(5, 1)

----------------------------------------------------------------------------
(* Types.                                                                   *)

\* the primitive the Encodable returned in event ev is not of the variant
\* that the type of its field names
Mismatch(ev) == ev.prim.tag # FieldIn(FrameOf(ev.path), ev.id).typ

\* event i of the encoder's log is a get_primitive that returned a primitive
Got(i) == elog[i].call = "get_primitive" /\ elog[i].prim # NoPrimitive

\* C15: has_type(p, t) is true if and only if the variant of p is t, for each
\* of the 16 primitive types, and false for every Record type; so encode_field
\* returns FieldTypeMismatch exactly when get_primitive returned a primitive
\* whose variant differs from the declared type of the field.
C15_HasType ==
    /\ (pc = "read" /\ op = "has_type") =>
           (res.v <=> value.prims[<<1, 0>>].tag = enc.target.req_fields[1].typ)
    /\ (pc \in {"written", "read"} /\ op = "record") =>
           /\ \A i \in 1 .. Len(elog) :
                  (Got(i) /\ Mismatch(elog[i])) =>
                      (ret.err = "FieldTypeMismatch" /\ i = Len(elog))
           /\ (ret.err = "FieldTypeMismatch" /\ elog # <<>> /\ Got(Len(elog))) =>
                  Mismatch(elog[Len(elog)])

\* the byte of a Bool on the wire
BoolByte(t) == IF t THEN 255 ELSE 0

\* the Bools that the Encodable gave for the field id of the top-level record
BoolsGiven(id) ==
    LET evs == SelectSeq(elog, LAMBDA ev :
                   ev.call = "get_primitive" /\ ev.path = <<>> /\ ev.id = id)
    IN  [i \in 1 .. Len(evs) |-> BoolByte(evs[i].prim.t)]

\* the Bools that bytes stand for, up to the first byte that is no Bool
RECURSIVE BoolPrefix(_)
BoolPrefix(bytes) ==
    IF bytes = <<>> \/ bytes[1] \notin {0, 255} THEN <<>>
    ELSE <<bytes[1] = 255>> \o BoolPrefix(Tail(bytes))

\* the schema has one required field, a Bool, or one repeated field of Bools
BoolFirst == Len(enc.target.req_fields) = 1 /\ enc.target.req_fields[1].typ = "Bool"
BoolBlock ==
    /\ enc.target.req_fields = <<>> /\ Len(enc.target.opt_rep_fields) = 1
    /\ enc.target.opt_rep_fields[1].typ = "Bool"
    /\ enc.target.opt_rep_fields[1].quant = "Repeated"

\* the bytes of the Bool elements in the source of a bytes job
BoolBytes == IF BoolFirst THEN <<src[1]>> ELSE Tail(wire.blocks[1].body)

\* C16: Bool strictness: the encoder writes true as the single byte 0xFF and
\* false as 0x00; the decoder of a Bool field delivers true for 0xFF, false
\* for 0x00, and for every other byte returns BadBool without calling
\* set_primitive for it.
C16_BoolStrict ==
    /\ (Encoded /\ BoolFirst) =>
           /\ data[1] = BoolByte(value.prims[<<1, 0>>].t)
           /\ spans[1].from = 1
    /\ Encoded =>
           \A i \in 1 .. Len(spans) :
               (/\ IsBlock(i) /\ spans[i].path = <<>>
                /\ FieldIn(enc.target, spans[i].id).typ = "Bool") =>
                   SubSeq(data, spans[i].from + 1, spans[i].to) = BoolsGiven(spans[i].id)
    /\ (pc = "read" /\ op = "bytes" /\ (BoolFirst \/ BoolBlock)) =>
           /\ [i \in 1 .. Len(dlog) |-> dlog[i].prim.t] = BoolPrefix(BoolBytes)
           /\ \A i \in 1 .. Len(dlog) :
                  dlog[i].call = "set_primitive" /\ dlog[i].prim.tag = "Bool"
           /\ res.err = IF Len(BoolPrefix(BoolBytes)) = Len(BoolBytes) THEN "" ELSE "BadBool"

\* the byte 0x01 has been decoded as a Bool: BadBool, nothing delivered
C16_Witness ==
    /\ pc = "read" /\ op = "bytes" /\ BoolFirst /\ src[1] = 1
    /\ res.err = "BadBool" /\ dlog = <<>>

----------------------------------------------------------------------------
(* Invalid schemas.                                                         *)

\* entry i of the fields of the target violates the quantifier split: it is
\* in req_fields and not Required, or in opt_rep_fields and Required
Misplaced(i) ==
    IF i <= Len(enc.target.req_fields) THEN TargetFields[i].quant # "Required"
    ELSE TargetFields[i].quant = "Required"

\* the first entry that violates the split
FirstMisplaced ==
    CHOOSE i \in 1 .. Len(TargetFields) : Misplaced(i) /\ \A j \in 1 .. i - 1 : ~Misplaced(j)

\* the ids of the fields that a log shows calls for, in the top-level record
Called(log) == {log[i].id : i \in {j \in 1 .. Len(log) : log[j].path = <<>>}}

\* the blocks of the wire before the first one whose id is that of a Required
\* entry of opt_rep_fields
RECURSIVE BlocksBefore(_)
BlocksBefore(bs) ==
    IF bs = <<>> THEN <<>>
    ELSE IF \E k \in 1 .. Len(enc.target.opt_rep_fields) :
                /\ enc.target.opt_rep_fields[k].id = bs[1].id
                /\ enc.target.opt_rep_fields[k].quant = "Required"
         THEN <<>>
    ELSE <<bs[1]>> \o BlocksBefore(Tail(bs))

\* the wire has a block whose id is that of a Required entry of opt_rep_fields
RequiredOnWire == Len(BlocksBefore(wire.blocks)) < Len(wire.blocks)

\* C17: a schema whose lists violate the quantifier split is rejected: the
\* encoder returns EncodingInvalid when it reaches a non-Required entry of
\* req_fields or a Required entry of opt_rep_fields, the decoder returns
\* EncodingInvalid when the id on the wire is that of a Required entry of
\* opt_rep_fields, and no callback is made for the offending field.
C17_QuantifierSplit ==
    /\ (pc \in {"written", "read"} /\ op = "record"
           /\ \E i \in 1 .. Len(TargetFields) : Misplaced(i)) =>
           /\ ret.err = "EncodingInvalid"
           /\ Called(elog) = {TargetFields[j].id : j \in 1 .. FirstMisplaced - 1}
    /\ (pc = "read" /\ op = "bytes" /\ RequiredOnWire) =>
           /\ res.err = "EncodingInvalid"
           /\ Called(dlog) =
                  {enc.target.req_fields[j].id : j \in 1 .. Len(enc.target.req_fields)}
                      \cup {BlocksBefore(wire.blocks)[j].id :
                                j \in 1 .. Len(BlocksBefore(wire.blocks))}
           /\ pos = Len(wire.req) + Len(WireBlocks(BlocksBefore(wire.blocks))) + 1

\* the decoder has met the id of a Required entry of opt_rep_fields after it
\* delivered a required and an optional field
C17_Witness ==
    /\ pc = "read" /\ op = "bytes" /\ RequiredOnWire
    /\ res.err = "EncodingInvalid" /\ Called(dlog) = {1, 3}

\* field f has a Record type whose index is out of range for depends
Dangling(f) == f.typ = "Record" /\ f.index >= Len(enc.depends)

\* the quantifiers of rec are split as its two lists ask
WellSplit(rec) ==
    /\ \A i \in 1 .. Len(rec.req_fields) : rec.req_fields[i].quant = "Required"
    /\ \A i \in 1 .. Len(rec.opt_rep_fields) : rec.opt_rep_fields[i].quant # "Required"

\* every Record index of rec is in range
Resolved(rec) == \A i \in 1 .. Len(FieldsOf(rec)) : ~Dangling(FieldsOf(rec)[i])

\* the paths of the records a log shows entered: the top-level record and
\* those that encode_record / decode_record was called for
Frames(log) ==
    {<<>>} \cup {Append(log[i].path, <<log[i].id, log[i].idx>>) :
                    i \in {j \in 1 .. Len(log) :
                               log[j].call \in {"encode_record", "decode_record"}}}

\* the ids of the fields of the record at path that a log shows calls for
CalledAt(log, path) == {log[i].id : i \in {j \in 1 .. Len(log) : log[j].path = path}}

\* each step of path is a Record field of the record type above it whose
\* index is in range
RECURSIVE Framed(_)
Framed(path) ==
    \/ path = <<>>
    \/ /\ Framed(SubSeq(path, 1, Len(path) - 1))
       /\ \E k \in 1 .. Len(FieldsOf(FrameOf(SubSeq(path, 1, Len(path) - 1)))) :
              /\ FieldsOf(FrameOf(SubSeq(path, 1, Len(path) - 1)))[k].id
                     = path[Len(path)][1]
              /\ FieldsOf(FrameOf(SubSeq(path, 1, Len(path) - 1)))[k].typ = "Record"
              /\ ~Dangling(FieldsOf(FrameOf(SubSeq(path, 1, Len(path) - 1)))[k])

\* what C18 says of a call that returned err after the calls of log
ChildFrames(log, err) ==
    \* a frame is entered only for a Record field with its index in range
    /\ \A p \in Frames(log) : Framed(p)
    /\ \A i \in 1 .. Len(log) : Framed(log[i].path)
    \* no callback for a field whose index is out of range, and its frame,
    \* once entered, ends the call with EncodingInvalid
    /\ \A p \in Frames(log) :
           \A i \in 1 .. Len(FieldsOf(FrameOf(p))) :
               Dangling(FieldsOf(FrameOf(p))[i]) =>
                   /\ err = "EncodingInvalid"
                   /\ FieldsOf(FrameOf(p))[i].id \notin CalledAt(log, p)
    \* the calls made in a frame are calls for fields of depends[k], each by
    \* the callback of its type, with depends resolved as in the parent
    /\ \A i \in 1 .. Len(log) :
           /\ log[i].id \in {FieldsOf(FrameOf(log[i].path))[k].id :
                                k \in 1 .. Len(FieldsOf(FrameOf(log[i].path)))}
           /\ log[i].call \in {"encode_record", "decode_record"} <=>
                  (/\ log[i].call # "count_field"
                   /\ FieldIn(FrameOf(log[i].path), log[i].id).typ = "Record")
           /\ log[i].call = "set_primitive" =>
                  log[i].prim.tag = FieldIn(FrameOf(log[i].path), log[i].id).typ
    \* a call that succeeded went through the required fields of each frame
    /\ err = "" =>
           \A p \in Frames(log) :
               {FrameOf(p).req_fields[k].id : k \in 1 .. Len(FrameOf(p).req_fields)}
                   \subseteq CalledAt(log, p)
    \* a schema with every index in range and its quantifiers split is valid
    /\ (/\ Resolved(enc.target) /\ WellSplit(enc.target)
        /\ \A k \in 1 .. Len(enc.depends) :
               Resolved(enc.depends[k]) /\ WellSplit(enc.depends[k])) =>
           err # "EncodingInvalid"

\* C18: when a field of type Record(k) is reached and k >= len(depends), the
\* encoder and the decoder return EncodingInvalid without creating a child
\* frame and without calling encode_record / decode_record; when
\* k < len(depends) the child frame has rec = depends[k] and the depends of
\* its parent.
C18_ChildFrames ==
    /\ (pc \in {"written", "read"} /\ op = "record") => ChildFrames(elog, ret.err)
    /\ (pc = "read" /\ op \in {"wire", "bytes", "short"}) => ChildFrames(dlog, res.err)

\* a record two levels down has been decoded: the Bool of the Inner of the
\* second Outer of a repeated field
C18_Witness ==
    /\ pc = "read" /\ op = "bytes" /\ res.err = ""
    /\ \E i \in 1 .. Len(dlog) :
           /\ dlog[i].path = <<<<4, 1>>, <<2, 0>>>>
           /\ dlog[i].call = "set_primitive" /\ dlog[i].id = 3
           /\ dlog[i].prim = Primitive("Bool", {}, <<>>, TRUE)

----------------------------------------------------------------------------
(* Propagation of errors.                                                   *)

IsPrefix(p, q) == Len(p) <= Len(q) /\ SubSeq(q, 1, Len(p)) = p

\* the records of the encoder's log that were entered and have no terminator
Unfinished ==
    {p \in Frames(elog) :
        ~\E i \in 1 .. Len(spans) : spans[i].kind = "Terminator" /\ spans[i].path = p}

\* call i of the Encodable failed, or returned a primitive that the type
\* check of encode_field rejects
EncodeFailedAt(i) ==
    \/ elog[i].call = "get_primitive" /\ elog[i].prim = NoPrimitive
    \/ Got(i) /\ ~has_type(elog[i].prim, FieldIn(FrameOf(elog[i].path), elog[i].id).typ)
    \/ elog[i].call = "count_field" /\ elog[i].path = <<>> /\ elog[i].id \in value.nocount

\* call i of the Decodable failed
DecodeFailedAt(i) ==
    dlog[i].call = "set_primitive" /\ <<dlog[i].path, dlog[i].id, dlog[i].idx>> \in dable.fail

\* C19: stop at first error: once a step of an encode or decode call fails (a
\* callback returns an error, a type check fails, the schema is invalid, a
\* read fails), the engine makes no further callback and no further read or
\* write, writes no terminator in that frame or its ancestors, and the
\* top-level call returns that first error.
C19_FirstError ==
    /\ (pc \in {"written", "read"} /\ op = "record") =>
           /\ \A i \in 1 .. Len(elog) :
                  EncodeFailedAt(i) => (i = Len(elog) /\ ret.err = "FieldTypeMismatch")
           /\ (pc = "written" /\ ret.err # "") =>
                  /\ fault.err = ret.err
                  /\ Len(elog) = fault.seen
                  /\ Len(data) = fault.at
                  /\ <<>> \in Unfinished
                  /\ \A p, q \in Unfinished : IsPrefix(p, q) \/ IsPrefix(q, p)
           /\ ret.err = "" => Unfinished = {}
    /\ (pc = "read" /\ op \in {"record", "wire", "bytes", "short"}) =>
           /\ \A i \in 1 .. Len(dlog) :
                  DecodeFailedAt(i) => (i = Len(dlog) /\ res.err = "FieldTypeMismatch")
           /\ fault.err = res.err
           /\ res.err # "" => (Len(dlog) = fault.seen /\ pos = fault.at)

\* a Decodable has rejected the second of three required fields: two calls,
\* two bytes read of a record of nine
C19_Witness ==
    /\ pc = "read" /\ op = "bytes" /\ enc = ThreeSchema
    /\ dable.fail = {<<<<>>, 2, 0>>}
    /\ res.err = "FieldTypeMismatch" /\ Len(dlog) = 2 /\ pos = 2

----------------------------------------------------------------------------
(* The bootstrap encoding.                                                  *)

\* rec is a well-formed record type: quantifiers split, both lists strictly
\* ascending by id, no id 0, every Record index in range
WellFormed(rec) ==
    /\ WellSplit(rec)
    /\ Sorted(rec.req_fields) /\ Sorted(rec.opt_rep_fields)
    /\ \A i \in 1 .. Len(FieldsOf(rec)) : FieldsOf(rec)[i].id # 0
    /\ Resolved(rec)

\* rec describes a scalar field with this name, quantifier and type
Describes(rec, name, quant, typ, index) ==
    \E i \in 1 .. Len(FieldsOf(rec)) :
        /\ FieldsOf(rec)[i].name = name
        /\ FieldsOf(rec)[i].quant = quant
        /\ FieldsOf(rec)[i].typ = typ
        /\ FieldsOf(rec)[i].index = index
        /\ FieldsOf(rec)[i].bounds = <<>>

\* the record types of enc describe the structures of the data model, but for
\* the field bounds: CompleteEncoding { target, depends }, FieldEncoding { id,
\* name, quant, typ, .. }, RecordEncoding { name, req_fields, opt_rep_fields }
DescribesStructures ==
    /\ Len(enc.depends) = 2
    /\ enc.target.name = "CompleteEncoding"
    /\ Len(FieldsOf(enc.target)) = 2
    /\ Describes(enc.target, "target", "Required", "Record", 1)
    /\ Describes(enc.target, "depends", "Repeated", "Record", 1)
    /\ enc.depends[1].name = "FieldEncoding"
    /\ Len(FieldsOf(enc.depends[1])) = 5
    /\ Describes(enc.depends[1], "id", "Required", "UInt64", 0)
    /\ Describes(enc.depends[1], "name", "Required", "String", 0)
    /\ Describes(enc.depends[1], "quant", "Required", "Enum", 0)
    /\ Describes(enc.depends[1], "typ", "Required", "Enum", 0)
    /\ enc.depends[2].name = "RecordEncoding"
    /\ Len(FieldsOf(enc.depends[2])) = 3
    /\ Describes(enc.depends[2], "name", "Required", "String", 0)
    /\ Describes(enc.depends[2], "req_fields", "Repeated", "Record", 0)
    /\ Describes(enc.depends[2], "opt_rep_fields", "Repeated", "Record", 0)

\* bounds is described as the optional value it is in FieldEncoding
BoundsOptional == Describes(enc.depends[1], "bounds", "Optional", "UInt64", 0)

\* C20: the bootstrap COMPLETE_ENC is a well-formed CompleteEncoding: in
\* target and in each dependency every req_fields entry is Required, every
\* opt_rep_fields entry is Optional or Repeated, both lists are strictly
\* ascending by id with no id 0, every Record(k) has k < len(depends),
\* depends[0] is FieldEncoding and depends[1] is RecordEncoding, and the
\* fields described mirror the structures of the data model, bounds being an
\* optional value.
C20_Bootstrap ==
    (op = "record" /\ enc = COMPLETE_ENC) =>
        /\ WellFormed(enc.target)
        /\ \A k \in 1 .. Len(enc.depends) : WellFormed(enc.depends[k])
        /\ DescribesStructures
        /\ BoundsOptional

----------------------------------------------------------------------------
(* Zig-zag decoding.                                                        *)

\* the signed 64-bit value that zig-zag decoding gives for u: ~(u >> 1) when
\* the low bit of u is set, u >> 1 otherwise
Unzigzag(u) == IF 0 \in u THEN Not(Shr(u, 1), 64) ELSE Shr(u, 1)

\* the unsigned 64-bit integer that read_uvarint obtains from the source
Obtained == read_uvarint(src, 0).v

\* read_varint has run on the source
VarintRead == pc = "read" /\ op \in {"varint", "zigzag"}

\* C21: for every unsigned 64-bit u obtained from the wire, read_varint
\* returns ~(u >> 1) as a signed 64-bit value when the low bit of u is set,
\* and u >> 1 otherwise (u = 1 decodes to -1 and u = 3 to -2).
C21_ZigZagDecode == VarintRead => res.err = "" /\ res.v = Unzigzag(Obtained)

----------------------------------------------------------------------------
(* The merge of the blocks of the wire with opt_rep_fields.                 *)

\* the schema list and the blocks of the wire are in strictly ascending id,
\* and the lists of the target hold the quantifiers they are for
Mergeable ==
    /\ op \in {"wire", "bytes"}
    /\ Sorted(enc.target.opt_rep_fields) /\ WellSplit(enc.target)
    /\ Sorted(wire.blocks)

\* the calls the blocks of the wire ask for: the required fields, then every
\* block whose id is in the schema, once for an optional field and at the
\* indices below its count for a repeated one, and nothing else
Merged ==
    Flattened(TargetFields, [i \in 1 .. Len(TargetFields) |-> WireOccurrences(TargetFields[i])])

\* C22: for a wire whose block ids are strictly ascending and a schema whose
\* opt_rep_fields are sorted by id, every block of the wire whose id is in
\* opt_rep_fields is decoded once as its quantifier asks (Optional: index 0;
\* Repeated with count N: indices 0 .. N-1), in wire order; schema entries
\* with no block on the wire produce no callback; and no callback is made
\* with an id that is not in the schema.  A decode that fails has made the
\* calls up to the failure.
C22_Merge ==
    (pc = "read" /\ Mergeable) =>
        /\ IsPrefix(Visits(dlog), Merged)
        /\ res.err = "" => Visits(dlog) = Merged

----------------------------------------------------------------------------
(* Decoder::decode step by step: the required fields and the first id, then *)
(* one step for each iteration of the while loop.  The calls on the         *)
(* Decodable return.                                                        *)

MaxLen == 3

\* the bytes of the sources: a terminator, small ids, sizes and counts, and a
\* byte with the continuation bit
LoopBytes == {0, 1, 2, 3, 128}

RECURSIVE ByteStrings(_)
\* the byte strings of length n
ByteStrings(n) ==
    IF n = 0 THEN {<<>>}
    ELSE {Append(b, c) : b \in ByteStrings(n - 1), c \in LoopBytes}

\* every source of up to MaxLen bytes
LoopSources == UNION {ByteStrings(n) : n \in 0 .. MaxLen}

\* a record type with a repeated field of its own type
Node == RecordEncoding(<<>>, <<Rec(1, "Repeated", 0)>>)

\* schemas well-formed and not: no field; sorted fields; fields out of order
\* with an id twice; an id 0 and a Required entry among the optional ones;
\* nested records, one with its index out of range; a recursive record type
LoopSchemas ==
    {Schema(<<>>, <<>>),
     Schema(<<Req(1, "UInt8")>>, <<Opt(2, "UInt8"), Rep(3, "UInt64")>>),
     Schema(<<>>, <<Opt(3, "UInt8"), Opt(1, "UInt64"), Opt(3, "Bool")>>),
     Schema(<<Opt(1, "UInt64")>>, <<Opt(0, "UInt8"), Req(2, "UInt8"), Opt(3, "Int32")>>),
     CompleteEncoding(RecordEncoding(<<>>, <<Rec(1, "Repeated", 0), Rec(2, "Optional", 7)>>),
                      <<RecordEncoding(<<Req(1, "UInt64")>>, <<Opt(2, "UInt8")>>)>>),
     CompleteEncoding(Node, <<Node>>)}

\* each schema with a Decodable that accepts every element, and the flat ones
\* with one that rejects an element
LoopJobs ==
    {[enc |-> c, d |-> Recorder] : c \in LoopSchemas}
    \cup {[enc |-> c, d |-> Decodable({<<<<>>, 3, 0>>}, {})] :
              c \in {c \in LoopSchemas : c.depends = <<>> /\ c.target.req_fields # <<>>}}

LoopInit ==
    /\ op = "decode" /\ pc = "enter"
    /\ \E j \in LoopJobs : enc = j.enc /\ dable = j.d
    /\ src \in LoopSources
    /\ x = {} /\ value = NoValue /\ wire = NoWire /\ trail = <<>>
    /\ data = <<>> /\ chunks = <<>> /\ spans = <<>>
    /\ ret = [err |-> "", n |-> 0]
    /\ elog = <<>> /\ dlog = <<>>
    /\ pos = 0
    /\ res = [err |-> "", v |-> {}]
    /\ fault = NoFault
    /\ next_field = 0 /\ next_id = {}

\* the top-level frame and what it has read and called so far
LoopFrame == Decoder(enc.target, enc.depends)
LoopState == [pos |-> pos, log |-> dlog]

\* the iterator gives its first entry, and then the same entry again
itr_stay(k) == IF k = 0 THEN 1 ELSE k

\* opt_rep_itr.next(): the entry after entry k, past the end for None
itr_next(k) == k + 1

\* what a step of decode leaves alone
Untouched ==
    UNCHANGED <<op, x, enc, value, wire, trail, data, chunks, spans, ret, elog, src, dable>>

\* decode returns r
Returned(r) ==
    /\ pc' = "done"
    /\ res' = [err |-> r.err, v |-> {}]
    /\ pos' = r.st.pos
    /\ dlog' = r.st.log
    /\ fault' = Fault(r)
    /\ UNCHANGED <<next_field, next_id>>

\* next_field becomes entry k and next_id = FieldID(try!(read_uvarint(self.r)))
\* is read after st; the loop goes on
Continued(k, st) ==
    /\ pc' = "loop"
    /\ next_field' = k
    /\ next_id' = read_uvarint(src, st.pos).v
    /\ pos' = read_uvarint(src, st.pos).pos
    /\ dlog' = st.log
    /\ UNCHANGED <<res, fault>>

\* the required fields, then the first entry of opt_rep_fields and the first id
DecodeRequired ==
    /\ pc = "enter"
    /\ \E r \in {decode_req_loop(LoopFrame, src, dable, <<>>, 1, LoopState)} :
           IF r.err # "" THEN Returned(r) ELSE Continued(itr_next(0), r.st)
    /\ Untouched

\* while next_id != FieldID(0): the loop ends and decode returns Ok
LoopEnd ==
    /\ pc = "loop" /\ next_id = {}
    /\ Returned(DOk(LoopState))
    /\ Untouched

\* the loop body runs with next_field = Some(field)
OnField == pc = "loop" /\ next_id # {} /\ next_field <= Len(enc.target.opt_rep_fields)

\* None => next_id = FieldID(try!(read_uvarint(self.r)))
FieldNone ==
    /\ pc = "loop" /\ next_id # {} /\ next_field > Len(enc.target.opt_rep_fields)
    /\ Continued(next_field, LoopState)
    /\ Untouched

\* field.id < next_id: next_field = opt_rep_itr.next()
FieldBelow ==
    /\ OnField
    /\ LtU(FromNat(enc.target.opt_rep_fields[next_field].id), next_id)
    /\ pc' = "loop"
    /\ next_field' = itr_next(next_field)
    /\ UNCHANGED <<next_id, pos, dlog, res, fault>>
    /\ Untouched

\* field.id > next_id: the block is skipped and the next id is read
FieldAbove ==
    /\ OnField
    /\ LtU(next_id, FromNat(enc.target.opt_rep_fields[next_field].id))
    /\ \E r \in {skip_field(src, LoopState)} :
           IF r.err # "" THEN Returned(r) ELSE Continued(next_field, r.st)
    /\ Untouched

\* field.id = next_id: the block is decoded as the quantifier asks, then the
\* next entry and the next id
FieldMatched ==
    /\ OnField
    /\ FromNat(enc.target.opt_rep_fields[next_field].id) = next_id
    /\ \E r \in {decode_matched(LoopFrame, src, dable, <<>>,
                                  enc.target.opt_rep_fields[next_field], LoopState)} :
           IF r.err # "" THEN Returned(r) ELSE Continued(itr_next(next_field), r.st)
    /\ Untouched

LoopNext ==
    \/ DecodeRequired \/ LoopEnd
    \/ FieldNone \/ FieldBelow \/ FieldAbove \/ FieldMatched

\* decode runs on: a step that can be taken is taken
LoopSpec == LoopInit /\ [][LoopNext]_vars /\ WF_vars(LoopNext)

\* an iteration of the while loop after which the loop goes on
Iterated == pc = "loop" /\ next_id # {} /\ pc' = "loop"

\* the iteration advanced the schema iterator, or consumed a byte, or found
\* the source at its end, where the id read is 0
Progressed ==
    \/ next_field' > next_field
    \/ pos' > pos
    \/ pos = Len(src) /\ pos' = pos /\ next_id' = {}

\* C23: Decoder::decode terminates on every finite source and every finite
\* schema, well-formed or not, when the calls on the Decodable return: each
\* iteration of the optional/repeated loop advances the schema iterator or
\* consumes at least one byte of the source or observes the end of input, so
\* the loop does not spin without progress, and decode returns.
C23_Terminates == [][Iterated => Progressed]_vars /\ <>(pc = "done")

\* decode returned Ok from a schema whose entries are out of order, after a
\* call on the Decodable, with the source read to its end and no terminator
\* in it: the loop ended on the end of input
C23_Witness ==
    /\ pc = "done" /\ res.err = ""
    /\ ~Sorted(enc.target.opt_rep_fields)
    /\ dlog # <<>>
    /\ Len(src) = MaxLen /\ pos = Len(src) /\ \A i \in 1 .. Len(src) : src[i] # 0

-----------------------------------------------------------------------------
(* The 32-bit varint fields: decode_field reads a 64-bit varint and casts   *)
(* it to u32 or i32.                                                        *)

\* the record decoded has one field, a UInt32 or an Int32
Narrowed == pc = "read" /\ op = "bytes" /\ enc \in {w.enc : w \in NarrowWires}

NarrowField ==
    IF enc.target.req_fields # <<>> THEN enc.target.req_fields[1]
    ELSE enc.target.opt_rep_fields[1]

\* where the varint of the field starts: at the head of the record if the
\* field is required, after the id and the size of its block if not
NarrowAt == IF enc.target.req_fields # <<>> THEN 0 ELSE 2

\* the 64-bit value that read_uvarint or read_varint returns for the field
ValueRead ==
    IF NarrowField.typ = "UInt32" THEN read_uvarint(src, NarrowAt).v
    ELSE read_varint(src, NarrowAt).v

\* the value is above 2^32 - 1, or as a signed value below -2^31 or above
\* 2^31 - 1 (its bits from the sign bit of 32 bits up are not all the same)
OutOfRange ==
    IF NarrowField.typ = "UInt32" THEN \E b \in ValueRead : b >= 32
    ELSE \E b, c \in 31 .. 63 : b \in ValueRead /\ c \notin ValueRead

\* v modulo 2^32
Low32(v) == {b \in v : b < 32}

\* C24: when the uvarint read for a UInt32 field is larger than 2^32 - 1, or
\* the value read_varint returns for an Int32 field lies outside the signed
\* 32-bit range, the decoder reports no error and delivers the value reduced
\* modulo 2^32 (the low 32 bits) to set_primitive.
C24_Truncates ==
    (Narrowed /\ OutOfRange) =>
        /\ res.err = ""
        /\ dlog = <<Event("set_primitive", <<>>, NarrowField.id, 0,
                          Primitive(NarrowField.typ, Low32(ValueRead), <<>>, FALSE), 0)>>

\* a required UInt32 whose varint carries 2^32 + 5 was delivered as 5
C24_Witness ==
    /\ Narrowed /\ OutOfRange
    /\ NarrowField.typ = "UInt32" /\ NarrowField.quant = "Required"
    /\ 32 \in ValueRead
    /\ res.err = "" /\ Len(dlog) = 1 /\ dlog[1].prim.v = FromNat(5)


====
